---- MODULE Spec2Model ----
(***************************************************************************)
(* Model of the JNI bridge com_jme3_bullet_objects_PhysicsSoftBody.cpp:    *)
(* every bridge function is one action; the soft body it works on is a     *)
(* record of the engine fields the bridge reads or writes.  A node pointer *)
(* (a btSoftBody Node pointer) is modelled by the node's index in m_nodes. *)
(* jfloat values are modelled by integers, jboolean by 0 / 1.              *)
(***************************************************************************)
EXTENDS Integers, Sequences, FiniteSets, TLC

VARIABLES
    bodies,     \* handle (jlong) -> the btSoftBody behind it
    evalOrder,  \* order in which this build evaluates the arguments of a call
    last        \* what the last bridge call did: exception, result, engine calls, buffer traffic

vars == <<bodies, evalOrder, last>>

(***************************************************************************)
(* Bounds of the model.                                                    *)
(***************************************************************************)
\* largest number of nodes a body is grown to
MaxNodes == 2
\* largest total number of links, faces and tetras a body is grown to
MaxElems == 2
\* largest capacity of a buffer handed to the bridge
MaxCap == 8
\* largest number of anchors a body is given
MaxAnchors == 3
\* largest number of bodies created
MaxBodies == 2
\* largest coordinate of a node, either way from the origin
MaxCoord == 22

(***************************************************************************)
(* Handles and values.                                                     *)
(***************************************************************************)
NULL == 0

\* the two exceptions states of a call: none pending, or the NullPointerException
NoException == [class |-> "", msg |-> ""]
NullPointerException ==
    [class |-> "java/lang/NullPointerException", msg |-> "The native object does not exist."]

\* argument evaluation orders a build can choose for f(buf[i++], buf[i++], ...)
EvalOrders == {"LeftToRight", "RightToLeft"}

\* a direct java.nio buffer of the given contents
DirectBuffer(data) == [direct |-> TRUE, data |-> data]

\* float buffers handed to appendNodes: capacity n, pairwise distinct elements
FloatBuffers == {DirectBuffer([i \in 1..n |-> 10 + 2 * i]) : n \in 0..MaxCap}

\* index buffers handed to appendLinks / appendFaces / appendTetras
IndexBuffers == {DirectBuffer([i \in 1..n |-> (i - 1) % MaxNodes]) : n \in 0..MaxCap}

\* output buffers handed to the get... functions, filled with a marker value
OutBuffers == {DirectBuffer([i \in 1..n |-> -7]) : n \in 0..MaxCap}

(***************************************************************************)
(* JNI buffer access.                                                      *)
(***************************************************************************)
GetDirectBufferCapacity(buf) == IF buf.direct THEN Len(buf.data) ELSE -1

\* element i (0-based) of the buffer's memory; outside the buffer the load yields garbage
Load(buf, i) ==
    IF buf.direct /\ i >= 0 /\ i < Len(buf.data) THEN buf.data[i + 1] ELSE -1

\* a jbyte / jshort / jint element converted to the int parameter of the engine call:
\* the low bits of the stored element, read as a signed number (a jint is an int already)
SignExtend(v, bits) ==
    IF bits = 32 THEN v
    ELSE LET m == v % (2 ^ bits) IN IF m >= 2 ^ (bits - 1) THEN m - 2 ^ bits ELSE m

\* the memory of an output buffer after a store of v at element i (0-based)
Store(data, i, v) ==
    IF i >= 0 /\ i < Len(data) THEN [data EXCEPT ![i + 1] = v] ELSE data

(***************************************************************************)
(* The record of one bridge call.                                          *)
(***************************************************************************)
\* a call on an engine object: method, arguments, and the value it returned (0 for void)
CallR(m, args, ret) == [m |-> m, args |-> args, ret |-> ret]
Call(m, args) == CallR(m, args, 0)

\* Java math objects (com.jme3.math): a null reference, a Vector3f, a Quaternion (a
\* number of quarter turns about z), a Transform (rotation and translation)
JavaNull == [isNull |-> TRUE]
Vector3f(v) == [isNull |-> FALSE, x |-> v[1], y |-> v[2], z |-> v[3]]
Quaternion(turns) == [isNull |-> FALSE, turns |-> turns]
JmeTransform(turns, v) == [isNull |-> FALSE, rot |-> Quaternion(turns), translation |-> Vector3f(v)]

NoBuffer == [direct |-> FALSE, data |-> <<>>]

\* a call that returned normally and did nothing yet
Returned(op, bodyId) ==
    [op |-> op, bodyId |-> bodyId, exc |-> NoException, ret |-> 0,
     calls |-> <<>>,     \* the calls made on engine objects, in order
     inp |-> NoBuffer,   \* the buffer passed in
     reads |-> <<>>,     \* the element indices loaded from the buffer, in order
     writes |-> <<>>,    \* the element indices stored to the buffer, in order
     out |-> <<>>,       \* the buffer's memory after the call (output functions)
     conv |-> <<>>,      \* the math-object conversions made, in order
     obj |-> JavaNull,   \* the Java math object written (output functions)
     args |-> <<>>,      \* the arguments after bodyId, where recorded
     nodeIdx |-> <<>>,   \* the indices i of the m_nodes[i] the function addresses, in order
     before |-> <<>>]    \* the body before the call, where recorded

Invoked(op, bodyId, args) == [Returned(op, bodyId) EXCEPT !.args = args]

\* the null-handle branch: FindClass, ThrowNew, return of the default value
ThrowNullPointer(op, bodyId) ==
    [Returned(op, bodyId) EXCEPT !.exc = NullPointerException]

\* the null branch of a second handle
ThrowNullSecond(op, bodyId, args) == [ThrowNullPointer(op, bodyId) EXCEPT !.args = args]

(***************************************************************************)
(* Vectors, rotations and transforms of the engine's math library.  A      *)
(* btVector3 is a triple; a rotation (btQuaternion, btMatrix3x3) is a      *)
(* number of quarter turns about the z axis; a btTransform is a rotation   *)
(* and an origin.                                                          *)
(***************************************************************************)
Zero3 == <<0, 0, 0>>
VecAdd(a, b) == <<a[1] + b[1], a[2] + b[2], a[3] + b[3]>>
VecSub(a, b) == <<a[1] - b[1], a[2] - b[2], a[3] - b[3]>>
VecNeg(a) == <<0 - a[1], 0 - a[2], 0 - a[3]>>
VecHalf(a) == <<a[1] \div 2, a[2] \div 2, a[3] \div 2>>
VecMul(a, b) == <<a[1] * b[1], a[2] * b[2], a[3] * b[3]>>

RECURSIVE Rotate(_, _)
Rotate(turns, v) ==
    IF turns % 4 = 0 THEN v ELSE Rotate((turns % 4) - 1, <<0 - v[2], v[1], v[3]>>)

Transform(basis, origin) == [basis |-> basis % 4, origin |-> origin]
Identity == Transform(0, Zero3)
\* btTransform::operator()(x), operator*(t), inverse()
TransformApply(t, x) == VecAdd(Rotate(t.basis, x), t.origin)
TransformMul(t1, t2) == Transform(t1.basis + t2.basis, TransformApply(t1, t2.origin))
TransformInverse(t) == Transform(4 - t.basis, Rotate(4 - t.basis, VecNeg(t.origin)))

(***************************************************************************)
(* The engine's soft body (btSoftBody), as far as the bridge relies on it. *)
(* Fields the bridge neither reads nor writes (forces, velocities, pose,   *)
(* clusters, rest lengths, collision lists) are not part of the record.    *)
(***************************************************************************)
\* a node: position m_x, mass (the engine keeps its inverse, m_im), m_battach
NewNode(x, m) == [x |-> x, mass |-> m, battach |-> 0]

\* btSoftBody(worldInfo) after initDefaults(): nothing appended, default margin
NewSoftBody(worldInfo) ==
    [nodes |-> <<>>, links |-> <<>>, faces |-> <<>>, tetras |-> <<>>,
     anchors |-> <<>>, materials |-> <<>>, worldInfo |-> worldInfo,
     margin |-> 1, userPointer |-> NULL, broadphaseHandle |-> NULL,
     bounds |-> <<Zero3, Zero3>>, initialWorldTransform |-> Identity,
     restLengthScale |-> 1]

btSoftBody_appendNode(b, x, m) == [b EXCEPT !.nodes = Append(@, NewNode(x, m))]
btSoftBody_appendLink(b, n) == [b EXCEPT !.links = Append(@, n)]
btSoftBody_appendFace(b, n) == [b EXCEPT !.faces = Append(@, n)]
btSoftBody_appendTetra(b, n) == [b EXCEPT !.tetras = Append(@, n)]
btSoftBody_appendMaterial(b, mat) ==
    [b EXCEPT !.materials = Append(@, [handle |-> mat, kLST |-> 1, kAST |-> 1,
                                        kVST |-> 1, flags |-> 1])]

NbElems(b) == Len(b.links) + Len(b.faces) + Len(b.tetras)
InRange(b, node) == node >= 0 /\ node < Len(b.nodes)

\* setMass / getMass of a node of the array; memory outside the array is not modelled
btSoftBody_setMass(b, node, mass) ==
    IF InRange(b, node)
    THEN [b EXCEPT !.nodes[node + 1].mass = IF mass > 0 THEN mass ELSE 0]
    ELSE b
btSoftBody_getMass(b, node) == IF InRange(b, node) THEN b.nodes[node + 1].mass ELSE -1

RECURSIVE SumMass(_, _)
SumMass(nodes, i) == IF i > Len(nodes) THEN 0 ELSE nodes[i].mass + SumMass(nodes, i + 1)
btSoftBody_getTotalMass(b) == SumMass(b.nodes, 1)

\* appendAnchor(node, body, localPivot, disableCollision, influence)
btSoftBody_appendAnchor(b, node, rigid, local, influence) ==
    [b EXCEPT !.anchors = Append(@, [node |-> node, body |-> rigid, local |-> local,
                                      influence |-> influence]),
              !.nodes[node + 1].battach = 1]

\* updateBounds(): the box around the nodes, widened by the margin; zero without nodes
Min(S) == CHOOSE x \in S : \A y \in S : x <= y
Max(S) == CHOOSE x \in S : \A y \in S : x >= y
Coord(b, c) == {b.nodes[i].x[c] : i \in 1..Len(b.nodes)}
btSoftBody_updateBounds(b) ==
    IF b.nodes = <<>> THEN [b EXCEPT !.bounds = <<Zero3, Zero3>>]
    ELSE [b EXCEPT !.bounds =
             <<[c \in 1..3 |-> Min(Coord(b, c)) - b.margin],
               [c \in 1..3 |-> Max(Coord(b, c)) + b.margin]>>]

\* transform(trs), and translate, rotate, scale built on it
btSoftBody_transform(b, trs) ==
    LET moved == [b EXCEPT !.nodes = [i \in 1..Len(b.nodes) |->
                        [b.nodes[i] EXCEPT !.x = TransformApply(trs, @)]]]
    IN [btSoftBody_updateBounds(moved) EXCEPT !.initialWorldTransform = trs]
btSoftBody_translate(b, v) == btSoftBody_transform(b, Transform(0, v))
btSoftBody_rotate(b, rot) == btSoftBody_transform(b, Transform(rot, Zero3))
btSoftBody_scale(b, scl) ==
    btSoftBody_updateBounds([b EXCEPT !.nodes = [i \in 1..Len(b.nodes) |->
                        [b.nodes[i] EXCEPT !.x = VecMul(@, scl)]]])

\* initDefaults(): resets bounds, margin, initial transform and rest length scale
btSoftBody_initDefaults(b) ==
    [b EXCEPT !.bounds = <<Zero3, Zero3>>, !.margin = 1,
              !.initialWorldTransform = Identity, !.restLengthScale = 1]

(***************************************************************************)
(* createEmptySoftBody                                                     *)
(***************************************************************************)
\* the body as it would be without the m->m_flags = 0x0000 line
EmptySoftBody_DebugDraw(h) ==
    LET worldInfo == 100 + h
        body == NewSoftBody(worldInfo)
        withMargin == [body EXCEPT !.margin = 0]
        withMat == btSoftBody_appendMaterial(withMargin, 200 + h)
        m == [withMat.materials[1] EXCEPT !.kLST = 1, !.kAST = 1, !.kVST = 1]
    IN [withMat EXCEPT !.materials[1] = m, !.userPointer = NULL]

\* the body createEmptySoftBody builds behind handle h
EmptySoftBody(h) ==
    LET worldInfo == 100 + h
        body == NewSoftBody(worldInfo)
        withMargin == [body EXCEPT !.margin = 0]   \* getCollisionShape()->setMargin(0)
        withMat == btSoftBody_appendMaterial(withMargin, 200 + h)
        m == [withMat.materials[1] EXCEPT !.kLST = 1, !.kAST = 1, !.kVST = 1, !.flags = 0]
    IN [withMat EXCEPT !.materials[1] = m, !.userPointer = NULL]

\* new btSoftBody(...) comes back at an address h no live object has; nothing in this
\* file deletes a body
createEmptySoftBody(h) ==
    /\ h # NULL
    /\ h \notin DOMAIN bodies
    /\ bodies' = [x \in DOMAIN bodies \cup {h} |->
                     IF x = h THEN EmptySoftBody(h) ELSE bodies[x]]
    /\ last' = [Returned("createEmptySoftBody", NULL) EXCEPT
                    !.ret = h,
                    !.calls = <<Call("setMargin", <<0>>), Call("appendMaterial", <<>>),
                                Call("setUserPointer", <<NULL>>)>>]
    /\ UNCHANGED evalOrder

(***************************************************************************)
(* appendNodes                                                             *)
(***************************************************************************)
RECURSIVE appendNodesLoop(_, _, _, _)
appendNodesLoop(acc, position, capacity, i) ==
    IF i < capacity
    THEN LET x == Load(position, i)
             y == Load(position, i + 1)
             z == Load(position, i + 2)
         IN appendNodesLoop(
                [b |-> btSoftBody_appendNode(acc.b, <<x, y, z>>, 1),
                 calls |-> Append(acc.calls, Call("appendNode", <<<<x, y, z>>, 1>>)),
                 reads |-> acc.reads \o <<i, i + 1, i + 2>>],
                position, capacity, i + 3)
    ELSE acc

\* appendNodes as it would be with the loop bound at the full capacity
appendNodes_FullCapacity(bodyId, floatBuffer) ==
    IF bodyId = NULL
    THEN /\ last' = ThrowNullPointer("appendNodes", bodyId)
         /\ UNCHANGED <<bodies, evalOrder>>
    ELSE LET capacity == GetDirectBufferCapacity(floatBuffer)
             r == appendNodesLoop([b |-> bodies[bodyId], calls |-> <<>>, reads |-> <<>>],
                                  floatBuffer, capacity, 0)
         IN /\ Len(r.b.nodes) <= MaxNodes
            /\ bodies' = [bodies EXCEPT ![bodyId] = r.b]
            /\ last' = [Returned("appendNodes", bodyId) EXCEPT
                            !.calls = r.calls, !.inp = floatBuffer, !.reads = r.reads]
            /\ UNCHANGED evalOrder

appendNodes(bodyId, floatBuffer) ==
    IF bodyId = NULL
    THEN /\ last' = ThrowNullPointer("appendNodes", bodyId)
         /\ UNCHANGED <<bodies, evalOrder>>
    ELSE LET capacity == GetDirectBufferCapacity(floatBuffer) - 2
             r == appendNodesLoop([b |-> bodies[bodyId], calls |-> <<>>, reads |-> <<>>],
                                  floatBuffer, capacity, 0)
         IN /\ Len(r.b.nodes) <= MaxNodes
            /\ bodies' = [bodies EXCEPT ![bodyId] = r.b]
            /\ last' = [Returned("appendNodes", bodyId) EXCEPT
                            !.calls = r.calls, !.inp = floatBuffer, !.reads = r.reads]
            /\ UNCHANGED evalOrder

(***************************************************************************)
(* appendLinks, appendFaces, appendTetras over byte, short and int buffers *)
(***************************************************************************)
\* the k arguments of body->append...(buf[i++], ..., buf[i++]): the j-th evaluated
\* argument loads buf[i + j - 1]; which argument is evaluated j-th is the build's choice
ArgValues(buf, i, k, bits, order) ==
    [j \in 1..k |->
        SignExtend(Load(buf, IF order = "LeftToRight" THEN i + j - 1 ELSE i + k - j), bits)]

EngineAppend(b, method, n) ==
    CASE method = "appendLink" -> btSoftBody_appendLink(b, n)
      [] method = "appendFace" -> btSoftBody_appendFace(b, n)
      [] method = "appendTetra" -> btSoftBody_appendTetra(b, n)

RECURSIVE appendIndexLoop(_, _, _, _, _, _, _, _)
appendIndexLoop(acc, buf, capacity, i, k, bits, method, order) ==
    IF i < capacity
    THEN LET n == ArgValues(buf, i, k, bits, order)
         IN appendIndexLoop(
                [b |-> EngineAppend(acc.b, method, n),
                 calls |-> Append(acc.calls, Call(method, n)),
                 reads |-> acc.reads \o [j \in 1..k |-> i + j - 1]],
                buf, capacity, i + k, k, bits, method, order)
    ELSE acc

\* the common shape of the nine functions: null check, capacity - slack, the loop
appendIndices(op, bodyId, buffer, slack, k, bits, method) ==
    IF bodyId = NULL
    THEN /\ last' = ThrowNullPointer(op, bodyId)
         /\ UNCHANGED <<bodies, evalOrder>>
    ELSE LET capacity == GetDirectBufferCapacity(buffer) - slack
             r == appendIndexLoop([b |-> bodies[bodyId], calls |-> <<>>, reads |-> <<>>],
                                  buffer, capacity, 0, k, bits, method, evalOrder)
         IN /\ NbElems(r.b) <= MaxElems
            /\ bodies' = [bodies EXCEPT ![bodyId] = r.b]
            /\ last' = [Returned(op, bodyId) EXCEPT
                            !.calls = r.calls, !.inp = buffer, !.reads = r.reads]
            /\ UNCHANGED evalOrder

appendLinks_ByteBuffer(bodyId, byteBuffer) ==
    appendIndices("appendLinks_ByteBuffer", bodyId, byteBuffer, 1, 2, 8, "appendLink")
appendLinks_ShortBuffer(bodyId, shortBuffer) ==
    appendIndices("appendLinks_ShortBuffer", bodyId, shortBuffer, 1, 2, 16, "appendLink")
appendLinks_IntBuffer(bodyId, intBuffer) ==
    appendIndices("appendLinks_IntBuffer", bodyId, intBuffer, 1, 2, 32, "appendLink")
appendFaces_ByteBuffer(bodyId, byteBuffer) ==
    appendIndices("appendFaces_ByteBuffer", bodyId, byteBuffer, 2, 3, 8, "appendFace")
appendFaces_ShortBuffer(bodyId, shortBuffer) ==
    appendIndices("appendFaces_ShortBuffer", bodyId, shortBuffer, 2, 3, 16, "appendFace")
appendFaces_IntBuffer(bodyId, intBuffer) ==
    appendIndices("appendFaces_IntBuffer", bodyId, intBuffer, 2, 3, 32, "appendFace")
appendTetras_ByteBuffer(bodyId, byteBuffer) ==
    appendIndices("appendTetras_ByteBuffer", bodyId, byteBuffer, 3, 4, 8, "appendTetra")
appendTetras_ShortBuffer(bodyId, shortBuffer) ==
    appendIndices("appendTetras_ShortBuffer", bodyId, shortBuffer, 3, 4, 16, "appendTetra")
\* appendTetras over an int buffer as it would be with the loop bound of appendLinks
appendTetras_IntBuffer_LinkBound(bodyId, intBuffer) ==
    appendIndices("appendTetras_IntBuffer", bodyId, intBuffer, 1, 4, 32, "appendTetra")
appendTetras_IntBuffer(bodyId, intBuffer) ==
    appendIndices("appendTetras_IntBuffer", bodyId, intBuffer, 3, 4, 32, "appendTetra")

(***************************************************************************)
(* getNbNodes, getNbLinks, getNbFaces, getNbTetras                         *)
(***************************************************************************)
\* the common shape: null check, then the size of one array of the body
getNb(op, bodyId, size) ==
    /\ last' = IF bodyId = NULL
               THEN ThrowNullPointer(op, bodyId)
               ELSE [Returned(op, bodyId) EXCEPT !.ret = size]
    /\ UNCHANGED <<bodies, evalOrder>>

getNbNodes(bodyId) ==
    getNb("getNbNodes", bodyId, IF bodyId = NULL THEN 0 ELSE Len(bodies[bodyId].nodes))
getNbLinks(bodyId) ==
    getNb("getNbLinks", bodyId, IF bodyId = NULL THEN 0 ELSE Len(bodies[bodyId].links))
getNbFaces(bodyId) ==
    getNb("getNbFaces", bodyId, IF bodyId = NULL THEN 0 ELSE Len(bodies[bodyId].faces))
\* getNbTetras as it would be reading the size of m_faces
getNbTetras_Faces(bodyId) ==
    getNb("getNbTetras", bodyId, IF bodyId = NULL THEN 0 ELSE Len(bodies[bodyId].faces))
getNbTetras(bodyId) ==
    getNb("getNbTetras", bodyId, IF bodyId = NULL THEN 0 ELSE Len(bodies[bodyId].tetras))

(***************************************************************************)
(* getNodesPositions, getLinksIndexes, getFacesIndexes, getTetrasIndexes   *)
(***************************************************************************)
\* out[buffi++] = v for each v of vals, starting at buffi
RECURSIVE StoreAll(_, _, _)
StoreAll(acc, buffi, vals) ==
    IF vals = <<>> THEN acc
    ELSE StoreAll([data |-> Store(acc.data, buffi, Head(vals)),
                   writes |-> Append(acc.writes, buffi)],
                  buffi + 1, Tail(vals))

\* the loop as it would be storing getY() twice
RECURSIVE getNodesPositionsLoop_YTwice(_, _, _, _, _)
getNodesPositionsLoop_YTwice(acc, nodes, size, i, buffi) ==
    IF i < size
    THEN LET n == nodes[i + 1]
         IN getNodesPositionsLoop_YTwice(StoreAll(acc, buffi, <<n.x[1], n.x[2], n.x[2]>>),
                                         nodes, size, i + 1, buffi + 3)
    ELSE acc

RECURSIVE getNodesPositionsLoop(_, _, _, _, _)
getNodesPositionsLoop(acc, nodes, size, i, buffi) ==
    IF i < size
    THEN LET n == nodes[i + 1]
         IN getNodesPositionsLoop(StoreAll(acc, buffi, <<n.x[1], n.x[2], n.x[3]>>),
                                  nodes, size, i + 1, buffi + 3)
    ELSE acc

getNodesPositions(bodyId, floatBuffer) ==
    /\ last' =
         IF bodyId = NULL
         THEN ThrowNullPointer("getNodesPositions", bodyId)
         ELSE LET body == bodies[bodyId]
                  size == Len(body.nodes)
                  r == getNodesPositionsLoop([data |-> floatBuffer.data, writes |-> <<>>],
                                             body.nodes, size, 0, 0)
              IN [Returned("getNodesPositions", bodyId) EXCEPT
                      !.inp = floatBuffer, !.out = r.data, !.writes = r.writes]
    /\ UNCHANGED <<bodies, evalOrder>>

\* a Node pointer is the node's index; firstNode = &body->m_nodes[0]
NodeAddress(idx) == idx
PointerDiff(p, firstNode) == p - firstNode

\* for each element, in storage order, the k stores out[buffi++] = int(e.m_n[j] - firstNode)
RECURSIVE getIndexesLoop(_, _, _, _, _, _, _)
getIndexesLoop(acc, elems, size, i, buffi, k, firstNode) ==
    IF i < size
    THEN LET e == elems[i + 1]
         IN getIndexesLoop(
                StoreAll(acc, buffi, [j \in 1..k |-> PointerDiff(NodeAddress(e[j]), firstNode)]),
                elems, size, i + 1, buffi + k, k, firstNode)
    ELSE acc

getIndexes(op, bodyId, intBuffer, elems, k) ==
    /\ last' =
         IF bodyId = NULL
         THEN ThrowNullPointer(op, bodyId)
         ELSE LET size == Len(elems)
                  firstNode == NodeAddress(0)
                  r == getIndexesLoop([data |-> intBuffer.data, writes |-> <<>>],
                                      elems, size, 0, 0, k, firstNode)
              IN [Returned(op, bodyId) EXCEPT
                      !.inp = intBuffer, !.out = r.data, !.writes = r.writes,
                      !.nodeIdx = <<0>>]
    /\ UNCHANGED <<bodies, evalOrder>>

getLinksIndexes(bodyId, intBuffer) ==
    getIndexes("getLinksIndexes", bodyId, intBuffer,
               IF bodyId = NULL THEN <<>> ELSE bodies[bodyId].links, 2)
getFacesIndexes(bodyId, intBuffer) ==
    getIndexes("getFacesIndexes", bodyId, intBuffer,
               IF bodyId = NULL THEN <<>> ELSE bodies[bodyId].faces, 3)
getTetrasIndexes(bodyId, intBuffer) ==
    getIndexes("getTetrasIndexes", bodyId, intBuffer,
               IF bodyId = NULL THEN <<>> ELSE bodies[bodyId].tetras, 4)

(***************************************************************************)
(* jmeBulletUtil: conversions between the two math libraries.              *)
(***************************************************************************)
convert_Vector3f(in) == <<in.x, in.y, in.z>>
convert_btVector3(in) == Vector3f(in)
convert_Quaternion(in) == in.turns % 4
convertQuat_Quaternion(in) == in.turns % 4
convertQuat_btMatrix3x3(in) == Quaternion(in % 4)
convert_Transform(in) == Transform(convert_Quaternion(in.rot), convert_Vector3f(in.translation))
convert_btTransform(in) == JmeTransform(in.basis, in.origin)

(***************************************************************************)
(* initDefault, setSoftBodyWorldInfo, getSoftBodyWorldInfo, getMaterial    *)
(***************************************************************************)
initDefault(bodyId) ==
    IF bodyId = NULL
    THEN /\ last' = ThrowNullPointer("initDefault", bodyId)
         /\ UNCHANGED <<bodies, evalOrder>>
    ELSE /\ bodies' = [bodies EXCEPT ![bodyId] = btSoftBody_initDefaults(@)]
         /\ last' = [Returned("initDefault", bodyId) EXCEPT
                         !.calls = <<Call("initDefaults", <<>>)>>]
         /\ UNCHANGED evalOrder

\* setSoftBodyWorldInfo as it would be without the test of the world-info handle
setSoftBodyWorldInfo_NoWorldCheck(bodyId, worldId) ==
    IF bodyId = NULL
    THEN /\ last' = ThrowNullPointer("setSoftBodyWorldInfo", bodyId)
         /\ UNCHANGED <<bodies, evalOrder>>
    ELSE /\ bodies' = [bodies EXCEPT ![bodyId].worldInfo = worldId]
         /\ last' = Invoked("setSoftBodyWorldInfo", bodyId, <<worldId>>)
         /\ UNCHANGED evalOrder

\* setSoftBodyWorldInfo as it would be calling initDefaults() once the world info is set
setSoftBodyWorldInfo_InitDefaults(bodyId, worldId) ==
    IF bodyId = NULL
    THEN /\ last' = ThrowNullPointer("setSoftBodyWorldInfo", bodyId)
         /\ UNCHANGED <<bodies, evalOrder>>
    ELSE IF worldId = NULL
    THEN /\ last' = ThrowNullSecond("setSoftBodyWorldInfo", bodyId, <<worldId>>)
         /\ UNCHANGED <<bodies, evalOrder>>
    ELSE /\ bodies' = [bodies EXCEPT
                           ![bodyId] = btSoftBody_initDefaults([@ EXCEPT !.worldInfo = worldId])]
         /\ last' = Invoked("setSoftBodyWorldInfo", bodyId, <<worldId>>)
         /\ UNCHANGED evalOrder

setSoftBodyWorldInfo(bodyId, worldId) ==
    IF bodyId = NULL
    THEN /\ last' = ThrowNullPointer("setSoftBodyWorldInfo", bodyId)
         /\ UNCHANGED <<bodies, evalOrder>>
    ELSE IF worldId = NULL
    THEN /\ last' = ThrowNullSecond("setSoftBodyWorldInfo", bodyId, <<worldId>>)
         /\ UNCHANGED <<bodies, evalOrder>>
    ELSE /\ bodies' = [bodies EXCEPT ![bodyId].worldInfo = worldId]
         /\ last' = Invoked("setSoftBodyWorldInfo", bodyId, <<worldId>>)
         /\ UNCHANGED evalOrder

getSoftBodyWorldInfo(bodyId) ==
    /\ last' = IF bodyId = NULL
               THEN ThrowNullPointer("getSoftBodyWorldInfo", bodyId)
               ELSE [Returned("getSoftBodyWorldInfo", bodyId) EXCEPT
                         !.calls = <<CallR("getWorldInfo", <<>>, bodies[bodyId].worldInfo)>>,
                         !.ret = bodies[bodyId].worldInfo]
    /\ UNCHANGED <<bodies, evalOrder>>

\* getMaterial as it would be returning what the function above it returns
getMaterial_WorldInfo(bodyId) ==
    /\ last' = IF bodyId = NULL
               THEN ThrowNullPointer("getMaterial", bodyId)
               ELSE [Returned("getMaterial", bodyId) EXCEPT
                         !.ret = bodies[bodyId].worldInfo]
    /\ UNCHANGED <<bodies, evalOrder>>

getMaterial(bodyId) ==
    /\ last' = IF bodyId = NULL
               THEN ThrowNullPointer("getMaterial", bodyId)
               ELSE [Returned("getMaterial", bodyId) EXCEPT
                         !.ret = bodies[bodyId].materials[1].handle]
    /\ UNCHANGED <<bodies, evalOrder>>

(***************************************************************************)
(* appendAnchor, removeAnchor                                              *)
(***************************************************************************)
\* !collisionBetweenLinkedBodies on a jboolean
Not(jbool) == IF jbool = 0 THEN 1 ELSE 0

\* appendAnchor as it would be handing collisionBetweenLinkedBodies on without the !
appendAnchor_NotNegated(bodyId, nodeId, rigidId, localPivot, collisionBetweenLinkedBodies, influence) ==
    LET args == <<nodeId, rigidId, localPivot, collisionBetweenLinkedBodies, influence>>
    IN IF bodyId = NULL
       THEN /\ last' = ThrowNullPointer("appendAnchor", bodyId)
            /\ UNCHANGED <<bodies, evalOrder>>
       ELSE IF rigidId = NULL
       THEN /\ last' = ThrowNullSecond("appendAnchor", bodyId, args)
            /\ UNCHANGED <<bodies, evalOrder>>
       ELSE /\ InRange(bodies[bodyId], nodeId)
            /\ Len(bodies[bodyId].anchors) < MaxAnchors
            /\ IF ~localPivot.isNull
               THEN LET vec == convert_Vector3f(localPivot)
                    IN /\ bodies' = [bodies EXCEPT ![bodyId] =
                                        btSoftBody_appendAnchor(@, nodeId, rigidId, vec, influence)]
                       /\ last' = [Invoked("appendAnchor", bodyId, args) EXCEPT
                                       !.before = bodies[bodyId],
                                       !.conv = <<"Vector3f->btVector3">>,
                                       !.calls = <<Call("appendAnchor",
                                           <<nodeId, rigidId, vec,
                                             collisionBetweenLinkedBodies, influence>>)>>]
               ELSE \* the engine computes the pivot from the node (rigid body at the origin)
                    /\ bodies' = [bodies EXCEPT ![bodyId] =
                                     btSoftBody_appendAnchor(@, nodeId, rigidId,
                                                             @.nodes[nodeId + 1].x, influence)]
                    /\ last' = [Invoked("appendAnchor", bodyId, args) EXCEPT
                                    !.before = bodies[bodyId],
                                    !.calls = <<Call("appendAnchor",
                                        <<nodeId, rigidId,
                                          collisionBetweenLinkedBodies, influence>>)>>]
            /\ UNCHANGED evalOrder

\* the non-null branch is taken for nodes of the body only: the engine writes the node
appendAnchor(bodyId, nodeId, rigidId, localPivot, collisionBetweenLinkedBodies, influence) ==
    LET args == <<nodeId, rigidId, localPivot, collisionBetweenLinkedBodies, influence>>
    IN IF bodyId = NULL
       THEN /\ last' = ThrowNullPointer("appendAnchor", bodyId)
            /\ UNCHANGED <<bodies, evalOrder>>
       ELSE IF rigidId = NULL
       THEN /\ last' = ThrowNullSecond("appendAnchor", bodyId, args)
            /\ UNCHANGED <<bodies, evalOrder>>
       ELSE /\ InRange(bodies[bodyId], nodeId)
            /\ Len(bodies[bodyId].anchors) < MaxAnchors
            /\ IF ~localPivot.isNull
               THEN LET vec == convert_Vector3f(localPivot)
                    IN /\ bodies' = [bodies EXCEPT ![bodyId] =
                                        btSoftBody_appendAnchor(@, nodeId, rigidId, vec, influence)]
                       /\ last' = [Invoked("appendAnchor", bodyId, args) EXCEPT
                                       !.before = bodies[bodyId],
                                       !.conv = <<"Vector3f->btVector3">>,
                                       !.calls = <<Call("appendAnchor",
                                           <<nodeId, rigidId, vec,
                                             Not(collisionBetweenLinkedBodies), influence>>)>>]
               ELSE \* the engine computes the pivot from the node (rigid body at the origin)
                    /\ bodies' = [bodies EXCEPT ![bodyId] =
                                     btSoftBody_appendAnchor(@, nodeId, rigidId,
                                                             @.nodes[nodeId + 1].x, influence)]
                    /\ last' = [Invoked("appendAnchor", bodyId, args) EXCEPT
                                    !.before = bodies[bodyId],
                                    !.calls = <<Call("appendAnchor",
                                        <<nodeId, rigidId,
                                          Not(collisionBetweenLinkedBodies), influence>>)>>]
            /\ UNCHANGED evalOrder

\* m_anchors.swap(i, j)
Swap(seq, i, j) == [seq EXCEPT ![i] = seq[j], ![j] = seq[i]]
\* m_anchors.pop_back()
PopBack(seq) == SubSeq(seq, 1, Len(seq) - 1)

\* the loop as it would be comparing the node only
RECURSIVE removeAnchorLoop_NodeOnly(_, _, _, _, _)
removeAnchorLoop_NodeOnly(b, nodeId, rigid, size, i) ==
    IF i < size
    THEN IF b.anchors[i + 1].node = NodeAddress(nodeId)
         THEN [b EXCEPT !.anchors = PopBack(Swap(@, i + 1, size)),
                        !.nodes[nodeId + 1].battach = 0]
         ELSE removeAnchorLoop_NodeOnly(b, nodeId, rigid, size, i + 1)
    ELSE b

\* the loop as it would be without the swap before pop_back
RECURSIVE removeAnchorLoop_NoSwap(_, _, _, _, _)
removeAnchorLoop_NoSwap(b, nodeId, rigid, size, i) ==
    IF i < size
    THEN IF b.anchors[i + 1].node = NodeAddress(nodeId) /\ b.anchors[i + 1].body = rigid
         THEN [b EXCEPT !.anchors = PopBack(@),
                        !.nodes[nodeId + 1].battach = 0]
         ELSE removeAnchorLoop_NoSwap(b, nodeId, rigid, size, i + 1)
    ELSE b

\* for (i = 0; i < size; i++) if (anchor i matches) { swap; pop_back; m_battach = 0; break; }
RECURSIVE removeAnchorLoop(_, _, _, _, _)
removeAnchorLoop(b, nodeId, rigid, size, i) ==
    IF i < size
    THEN IF b.anchors[i + 1].node = NodeAddress(nodeId) /\ b.anchors[i + 1].body = rigid
         THEN [b EXCEPT !.anchors = PopBack(Swap(@, i + 1, size)),
                        !.nodes[nodeId + 1].battach = 0]
         ELSE removeAnchorLoop(b, nodeId, rigid, size, i + 1)
    ELSE b

\* the node indices of the loop: &body->m_nodes[nodeId] in the test of every anchor
\* looked at, and body->m_nodes[nodeId].m_battach once an anchor matches
RECURSIVE removeAnchorNodes(_, _, _, _, _)
removeAnchorNodes(b, nodeId, rigid, size, i) ==
    IF i < size
    THEN IF b.anchors[i + 1].node = NodeAddress(nodeId) /\ b.anchors[i + 1].body = rigid
         THEN <<nodeId, nodeId>>
         ELSE <<nodeId>> \o removeAnchorNodes(b, nodeId, rigid, size, i + 1)
    ELSE <<>>

removeAnchor(bodyId, nodeId, rigidId) ==
    IF bodyId = NULL
    THEN /\ last' = ThrowNullPointer("removeAnchor", bodyId)
         /\ UNCHANGED <<bodies, evalOrder>>
    ELSE IF rigidId = NULL
    THEN /\ last' = ThrowNullSecond("removeAnchor", bodyId, <<nodeId, rigidId>>)
         /\ UNCHANGED <<bodies, evalOrder>>
    ELSE LET size == Len(bodies[bodyId].anchors)
         IN /\ bodies' = [bodies EXCEPT ![bodyId] =
                             removeAnchorLoop(@, nodeId, rigidId, size, 0)]
            /\ last' = [Invoked("removeAnchor", bodyId, <<nodeId, rigidId>>) EXCEPT
                            !.nodeIdx = removeAnchorNodes(bodies[bodyId], nodeId, rigidId,
                                                          size, 0)]
            /\ UNCHANGED evalOrder

(***************************************************************************)
(* addForce, addAeroForceToNode: forces are not part of the body record    *)
(***************************************************************************)
addForce_Vector3f(bodyId, force) ==
    /\ last' = IF bodyId = NULL
               THEN ThrowNullPointer("addForce_Vector3f", bodyId)
               ELSE LET vec == convert_Vector3f(force)
                    IN [Returned("addForce_Vector3f", bodyId) EXCEPT
                            !.conv = <<"Vector3f->btVector3">>,
                            !.calls = <<Call("addForce", <<vec>>)>>]
    /\ UNCHANGED <<bodies, evalOrder>>

addForce_Vector3fI(bodyId, force, nodeId) ==
    /\ last' = IF bodyId = NULL
               THEN ThrowNullPointer("addForce_Vector3fI", bodyId)
               ELSE LET vec == convert_Vector3f(force)
                    IN [Returned("addForce_Vector3fI", bodyId) EXCEPT
                            !.conv = <<"Vector3f->btVector3">>,
                            !.calls = <<Call("addForce", <<vec, nodeId>>)>>]
    /\ UNCHANGED <<bodies, evalOrder>>

addAeroForceToNode(bodyId, force, nodeId) ==
    /\ last' = IF bodyId = NULL
               THEN ThrowNullPointer("addAeroForceToNode", bodyId)
               ELSE LET vec == convert_Vector3f(force)
                    IN [Returned("addAeroForceToNode", bodyId) EXCEPT
                            !.conv = <<"Vector3f->btVector3">>,
                            !.calls = <<Call("addAeroForceToNode", <<vec, nodeId>>)>>]
    /\ UNCHANGED <<bodies, evalOrder>>

(***************************************************************************)
(* setMass, getMass, setMasses, getMasses                                  *)
(***************************************************************************)
setMass(bodyId, nodeId, mass) ==
    IF bodyId = NULL
    THEN /\ last' = ThrowNullPointer("setMass", bodyId)
         /\ UNCHANGED <<bodies, evalOrder>>
    ELSE /\ bodies' = [bodies EXCEPT ![bodyId] = btSoftBody_setMass(@, nodeId, mass)]
         /\ last' = [Invoked("setMass", bodyId, <<nodeId, mass>>) EXCEPT
                         !.calls = <<Call("setMass", <<nodeId, mass>>)>>]
         /\ UNCHANGED evalOrder

getMass(bodyId, nodeId) ==
    /\ last' = IF bodyId = NULL
               THEN ThrowNullPointer("getMass", bodyId)
               ELSE LET r == btSoftBody_getMass(bodies[bodyId], nodeId)
                    IN [Invoked("getMass", bodyId, <<nodeId>>) EXCEPT
                            !.calls = <<CallR("getMass", <<nodeId>>, r)>>, !.ret = r]
    /\ UNCHANGED <<bodies, evalOrder>>

\* the loop as it would be with body->setMass(i, masses[0])
RECURSIVE setMassesLoop_FirstMass(_, _, _, _)
setMassesLoop_FirstMass(acc, masses, length, i) ==
    IF i < length
    THEN LET m == Load(masses, 0)
         IN setMassesLoop_FirstMass([b |-> btSoftBody_setMass(acc.b, i, m),
                                     calls |-> Append(acc.calls, Call("setMass", <<i, m>>)),
                                     reads |-> Append(acc.reads, 0)],
                                    masses, length, i + 1)
    ELSE acc

RECURSIVE setMassesLoop(_, _, _, _)
setMassesLoop(acc, masses, length, i) ==
    IF i < length
    THEN LET m == Load(masses, i)
         IN setMassesLoop([b |-> btSoftBody_setMass(acc.b, i, m),
                           calls |-> Append(acc.calls, Call("setMass", <<i, m>>)),
                           reads |-> Append(acc.reads, i)],
                          masses, length, i + 1)
    ELSE acc

\* setMasses as it would be looping to the node count, not the capacity of the buffer
setMasses_NodeCount(bodyId, massBuffer) ==
    IF bodyId = NULL
    THEN /\ last' = ThrowNullPointer("setMasses", bodyId)
         /\ UNCHANGED <<bodies, evalOrder>>
    ELSE LET length == Len(bodies[bodyId].nodes)
             r == setMassesLoop([b |-> bodies[bodyId], calls |-> <<>>, reads |-> <<>>],
                                massBuffer, length, 0)
         IN /\ bodies' = [bodies EXCEPT ![bodyId] = r.b]
            /\ last' = [Returned("setMasses", bodyId) EXCEPT
                            !.calls = r.calls, !.inp = massBuffer, !.reads = r.reads,
                            !.nodeIdx = [j \in 1..Len(r.calls) |-> r.calls[j].args[1]]]
            /\ UNCHANGED evalOrder

setMasses(bodyId, massBuffer) ==
    IF bodyId = NULL
    THEN /\ last' = ThrowNullPointer("setMasses", bodyId)
         /\ UNCHANGED <<bodies, evalOrder>>
    ELSE LET length == GetDirectBufferCapacity(massBuffer)
             r == setMassesLoop([b |-> bodies[bodyId], calls |-> <<>>, reads |-> <<>>],
                                massBuffer, length, 0)
         IN /\ bodies' = [bodies EXCEPT ![bodyId] = r.b]
            /\ last' = [Returned("setMasses", bodyId) EXCEPT
                            !.calls = r.calls, !.inp = massBuffer, !.reads = r.reads,
                            !.nodeIdx = [j \in 1..Len(r.calls) |-> r.calls[j].args[1]]]
            /\ UNCHANGED evalOrder

\* getMasses as it would be with the loop body of setMasses above
getMasses_SetMass(bodyId, massBuffer) ==
    IF bodyId = NULL
    THEN /\ last' = ThrowNullPointer("getMasses", bodyId)
         /\ UNCHANGED <<bodies, evalOrder>>
    ELSE LET length == GetDirectBufferCapacity(massBuffer)
             r == setMassesLoop([b |-> bodies[bodyId], calls |-> <<>>, reads |-> <<>>],
                                massBuffer, length, 0)
         IN /\ bodies' = [bodies EXCEPT ![bodyId] = r.b]
            /\ last' = [Returned("getMasses", bodyId) EXCEPT
                            !.calls = r.calls, !.inp = massBuffer, !.reads = r.reads]
            /\ UNCHANGED evalOrder

RECURSIVE getMassesLoop(_, _, _, _)
getMassesLoop(acc, b, length, i) ==
    IF i < length
    THEN LET m == btSoftBody_getMass(b, i)
         IN getMassesLoop([data |-> Store(acc.data, i, m),
                           writes |-> Append(acc.writes, i),
                           calls |-> Append(acc.calls, CallR("getMass", <<i>>, m))],
                          b, length, i + 1)
    ELSE acc

getMasses(bodyId, massBuffer) ==
    /\ last' =
         IF bodyId = NULL
         THEN ThrowNullPointer("getMasses", bodyId)
         ELSE LET length == GetDirectBufferCapacity(massBuffer)
                  r == getMassesLoop([data |-> massBuffer.data, writes |-> <<>>, calls |-> <<>>],
                                     bodies[bodyId], length, 0)
              IN [Returned("getMasses", bodyId) EXCEPT
                      !.calls = r.calls, !.inp = massBuffer, !.out = r.data,
                      !.writes = r.writes,
                      !.nodeIdx = [j \in 1..Len(r.calls) |-> r.calls[j].args[1]]]
    /\ UNCHANGED <<bodies, evalOrder>>

(***************************************************************************)
(* getTotalMass, setTotalMass, setTotalDensity, setVolumeMass,             *)
(* setVolumeDensity.  The engine redistributes the node masses; which      *)
(* masses result is the engine's choice (masses).                          *)
(***************************************************************************)
WithMasses(b, masses) ==
    [b EXCEPT !.nodes = [i \in 1..Len(b.nodes) |-> [b.nodes[i] EXCEPT !.mass = masses[i]]]]

getTotalMass(bodyId) ==
    /\ last' = IF bodyId = NULL
               THEN ThrowNullPointer("getTotalMass", bodyId)
               ELSE LET r == btSoftBody_getTotalMass(bodies[bodyId])
                    IN [Returned("getTotalMass", bodyId) EXCEPT
                            !.calls = <<CallR("getTotalMass", <<>>, r)>>, !.ret = r]
    /\ UNCHANGED <<bodies, evalOrder>>

setTotalMass(bodyId, mass, fromFaces, masses) ==
    IF bodyId = NULL
    THEN /\ last' = ThrowNullPointer("setTotalMass", bodyId)
         /\ UNCHANGED <<bodies, evalOrder>>
    ELSE /\ bodies' = [bodies EXCEPT ![bodyId] = WithMasses(@, masses)]
         /\ last' = [Invoked("setTotalMass", bodyId, <<mass, fromFaces>>) EXCEPT
                         !.calls = <<Call("setTotalMass", <<mass, fromFaces>>)>>]
         /\ UNCHANGED evalOrder

setTotalDensity(bodyId, density, masses) ==
    IF bodyId = NULL
    THEN /\ last' = ThrowNullPointer("setTotalDensity", bodyId)
         /\ UNCHANGED <<bodies, evalOrder>>
    ELSE /\ bodies' = [bodies EXCEPT ![bodyId] = WithMasses(@, masses)]
         /\ last' = [Invoked("setTotalDensity", bodyId, <<density>>) EXCEPT
                         !.calls = <<Call("setTotalDensity", <<density>>)>>]
         /\ UNCHANGED evalOrder

setVolumeMass(bodyId, mass, masses) ==
    IF bodyId = NULL
    THEN /\ last' = ThrowNullPointer("setVolumeMass", bodyId)
         /\ UNCHANGED <<bodies, evalOrder>>
    ELSE /\ bodies' = [bodies EXCEPT ![bodyId] = WithMasses(@, masses)]
         /\ last' = [Invoked("setVolumeMass", bodyId, <<mass>>) EXCEPT
                         !.calls = <<Call("setVolumeMass", <<mass>>)>>]
         /\ UNCHANGED evalOrder

setVolumeDensity(bodyId, density, masses) ==
    IF bodyId = NULL
    THEN /\ last' = ThrowNullPointer("setVolumeDensity", bodyId)
         /\ UNCHANGED <<bodies, evalOrder>>
    ELSE /\ bodies' = [bodies EXCEPT ![bodyId] = WithMasses(@, masses)]
         /\ last' = [Invoked("setVolumeDensity", bodyId, <<density>>) EXCEPT
                         !.calls = <<Call("setVolumeDensity", <<density>>)>>]
         /\ UNCHANGED evalOrder

(***************************************************************************)
(* applyPhysicsTransform, applyPhysicsTranslate, applyPhysicsRotation,     *)
(* applyPhysicsScale                                                       *)
(***************************************************************************)
applyPhysicsTransform(bodyId, transform) ==
    IF bodyId = NULL
    THEN /\ last' = ThrowNullPointer("applyPhysicsTransform", bodyId)
         /\ UNCHANGED <<bodies, evalOrder>>
    ELSE LET arg == convert_Transform(transform)
         IN /\ bodies' = [bodies EXCEPT ![bodyId] = btSoftBody_transform(@, arg)]
            /\ last' = [Invoked("applyPhysicsTransform", bodyId, <<transform>>) EXCEPT
                            !.conv = <<"Transform->btTransform">>,
                            !.calls = <<Call("transform", <<arg>>)>>]
            /\ UNCHANGED evalOrder

applyPhysicsTranslate(bodyId, translate) ==
    IF bodyId = NULL
    THEN /\ last' = ThrowNullPointer("applyPhysicsTranslate", bodyId)
         /\ UNCHANGED <<bodies, evalOrder>>
    ELSE LET arg == convert_Vector3f(translate)
         IN /\ bodies' = [bodies EXCEPT ![bodyId] = btSoftBody_translate(@, arg)]
            /\ last' = [Invoked("applyPhysicsTranslate", bodyId, <<translate>>) EXCEPT
                            !.conv = <<"Vector3f->btVector3">>,
                            !.calls = <<Call("translate", <<arg>>)>>]
            /\ UNCHANGED evalOrder

applyPhysicsRotation(bodyId, rotation) ==
    IF bodyId = NULL
    THEN /\ last' = ThrowNullPointer("applyPhysicsRotation", bodyId)
         /\ UNCHANGED <<bodies, evalOrder>>
    ELSE LET arg == convert_Quaternion(rotation)
         IN /\ bodies' = [bodies EXCEPT ![bodyId] = btSoftBody_rotate(@, arg)]
            /\ last' = [Invoked("applyPhysicsRotation", bodyId, <<rotation>>) EXCEPT
                            !.conv = <<"Quaternion->btQuaternion">>,
                            !.calls = <<Call("rotate", <<arg>>)>>]
            /\ UNCHANGED evalOrder

applyPhysicsScale(bodyId, scl) ==
    IF bodyId = NULL
    THEN /\ last' = ThrowNullPointer("applyPhysicsScale", bodyId)
         /\ UNCHANGED <<bodies, evalOrder>>
    ELSE LET arg == convert_Vector3f(scl)
         IN /\ bodies' = [bodies EXCEPT ![bodyId] = btSoftBody_scale(@, arg)]
            /\ last' = [Invoked("applyPhysicsScale", bodyId, <<scl>>) EXCEPT
                            !.conv = <<"Vector3f->btVector3">>,
                            !.calls = <<Call("scale", <<arg>>)>>]
            /\ UNCHANGED evalOrder

(***************************************************************************)
(* setPhysicsTransform ... getPhysicsRotation, getBoundingCenter           *)
(***************************************************************************)
\* static inline btVector3 getBoundingCenter(btSoftBody* body)
getBoundingCenter(body) == VecHalf(VecAdd(body.bounds[1], body.bounds[2]))

\* setPhysicsTransform as it would be with the inverse on the right of the product
setPhysicsTransform_InverseOnRight(bodyId, transform) ==
    IF bodyId = NULL
    THEN /\ last' = ThrowNullPointer("setPhysicsTransform", bodyId)
         /\ UNCHANGED <<bodies, evalOrder>>
    ELSE LET trs == convert_Transform(transform)
             arg == TransformMul(trs, TransformInverse(bodies[bodyId].initialWorldTransform))
         IN /\ bodies' = [bodies EXCEPT ![bodyId] = btSoftBody_transform(@, arg)]
            /\ last' = [Invoked("setPhysicsTransform", bodyId, <<transform>>) EXCEPT
                            !.conv = <<"Transform->btTransform">>,
                            !.calls = <<Call("transform", <<arg>>)>>]
            /\ UNCHANGED evalOrder

setPhysicsTransform(bodyId, transform) ==
    IF bodyId = NULL
    THEN /\ last' = ThrowNullPointer("setPhysicsTransform", bodyId)
         /\ UNCHANGED <<bodies, evalOrder>>
    ELSE LET trs == convert_Transform(transform)
             arg == TransformMul(TransformInverse(bodies[bodyId].initialWorldTransform), trs)
         IN /\ bodies' = [bodies EXCEPT ![bodyId] = btSoftBody_transform(@, arg)]
            /\ last' = [Invoked("setPhysicsTransform", bodyId, <<transform>>) EXCEPT
                            !.conv = <<"Transform->btTransform">>,
                            !.calls = <<Call("transform", <<arg>>)>>]
            /\ UNCHANGED evalOrder

getPhysicsTransform(bodyId, transform) ==
    /\ last' = IF bodyId = NULL
               THEN ThrowNullPointer("getPhysicsTransform", bodyId)
               ELSE [Returned("getPhysicsTransform", bodyId) EXCEPT
                         !.conv = <<"btTransform->Transform">>,
                         !.obj = convert_btTransform(bodies[bodyId].initialWorldTransform)]
    /\ UNCHANGED <<bodies, evalOrder>>

\* setPhysicsLocation as it would be without the vec -= getBoundingCenter(body) line
setPhysicsLocation_NoCenter(bodyId, location) ==
    IF bodyId = NULL
    THEN /\ last' = ThrowNullPointer("setPhysicsLocation", bodyId)
         /\ UNCHANGED <<bodies, evalOrder>>
    ELSE LET vec == convert_Vector3f(location)
         IN /\ bodies' = [bodies EXCEPT ![bodyId] = btSoftBody_translate(@, vec)]
            /\ last' = [Invoked("setPhysicsLocation", bodyId, <<location>>) EXCEPT
                            !.before = bodies[bodyId],
                            !.conv = <<"Vector3f->btVector3">>,
                            !.calls = <<Call("translate", <<vec>>)>>]
            /\ UNCHANGED evalOrder

setPhysicsLocation(bodyId, location) ==
    IF bodyId = NULL
    THEN /\ last' = ThrowNullPointer("setPhysicsLocation", bodyId)
         /\ UNCHANGED <<bodies, evalOrder>>
    ELSE LET vec == convert_Vector3f(location)
             arg == VecSub(vec, getBoundingCenter(bodies[bodyId]))
         IN /\ bodies' = [bodies EXCEPT ![bodyId] = btSoftBody_translate(@, arg)]
            /\ last' = [Invoked("setPhysicsLocation", bodyId, <<location>>) EXCEPT
                            !.before = bodies[bodyId],
                            !.conv = <<"Vector3f->btVector3">>,
                            !.calls = <<Call("translate", <<arg>>)>>]
            /\ UNCHANGED evalOrder

getPhysicsLocation(bodyId, location) ==
    /\ last' = IF bodyId = NULL
               THEN ThrowNullPointer("getPhysicsLocation", bodyId)
               ELSE [Returned("getPhysicsLocation", bodyId) EXCEPT
                         !.conv = <<"btVector3->Vector3f">>,
                         !.obj = convert_btVector3(getBoundingCenter(bodies[bodyId]))]
    /\ UNCHANGED <<bodies, evalOrder>>

setPhysicsRotation(bodyId, rotation) ==
    IF bodyId = NULL
    THEN /\ last' = ThrowNullPointer("setPhysicsRotation", bodyId)
         /\ UNCHANGED <<bodies, evalOrder>>
    ELSE LET rot == convertQuat_Quaternion(rotation)
             arg == (TransformInverse(bodies[bodyId].initialWorldTransform).basis + rot) % 4
         IN /\ bodies' = [bodies EXCEPT ![bodyId] = btSoftBody_rotate(@, arg)]
            /\ last' = [Invoked("setPhysicsRotation", bodyId, <<rotation>>) EXCEPT
                            !.conv = <<"Quaternion->btMatrix3x3">>,
                            !.calls = <<Call("rotate", <<arg>>)>>]
            /\ UNCHANGED evalOrder

getPhysicsRotation(bodyId, rotation) ==
    /\ last' = IF bodyId = NULL
               THEN ThrowNullPointer("getPhysicsRotation", bodyId)
               ELSE [Returned("getPhysicsRotation", bodyId) EXCEPT
                         !.conv = <<"btMatrix3x3->Quaternion">>,
                         !.obj = convertQuat_btMatrix3x3(bodies[bodyId].initialWorldTransform.basis)]
    /\ UNCHANGED <<bodies, evalOrder>>

getBoundingCenter_Vector3f(bodyId, vec) ==
    /\ last' = IF bodyId = NULL
               THEN ThrowNullPointer("getBoundingCenter", bodyId)
               ELSE [Returned("getBoundingCenter", bodyId) EXCEPT
                         !.conv = <<"btVector3->Vector3f">>,
                         !.obj = convert_btVector3(getBoundingCenter(bodies[bodyId]))]
    /\ UNCHANGED <<bodies, evalOrder>>

(***************************************************************************)
(* getRestLenghtScale ... isInWorld.  What getVolume and clusterCount      *)
(* return is computed by the engine from state outside the body record: r. *)
(***************************************************************************)
getRestLenghtScale(bodyId) ==
    /\ last' = IF bodyId = NULL
               THEN ThrowNullPointer("getRestLenghtScale", bodyId)
               ELSE LET r == bodies[bodyId].restLengthScale
                    IN [Returned("getRestLenghtScale", bodyId) EXCEPT
                            !.calls = <<CallR("getRestLengthScale", <<>>, r)>>, !.ret = r]
    /\ UNCHANGED <<bodies, evalOrder>>

setRestLenghtScale(bodyId, value) ==
    IF bodyId = NULL
    THEN /\ last' = ThrowNullPointer("setRestLenghtScale", bodyId)
         /\ UNCHANGED <<bodies, evalOrder>>
    ELSE /\ bodies' = [bodies EXCEPT ![bodyId].restLengthScale = value]
         /\ last' = [Invoked("setRestLenghtScale", bodyId, <<value>>) EXCEPT
                         !.calls = <<Call("setRestLengthScale", <<value>>)>>]
         /\ UNCHANGED evalOrder

setPose(bodyId, bvolume, bframe) ==
    /\ last' = IF bodyId = NULL
               THEN ThrowNullPointer("setPose", bodyId)
               ELSE [Invoked("setPose", bodyId, <<bvolume, bframe>>) EXCEPT
                         !.calls = <<Call("setPose", <<bvolume, bframe>>)>>]
    /\ UNCHANGED <<bodies, evalOrder>>

resetLinkRestLengths(bodyId) ==
    /\ last' = IF bodyId = NULL
               THEN ThrowNullPointer("resetLinkRestLengths", bodyId)
               ELSE [Returned("resetLinkRestLengths", bodyId) EXCEPT
                         !.calls = <<Call("resetLinkRestLengths", <<>>)>>]
    /\ UNCHANGED <<bodies, evalOrder>>

getVolume(bodyId, r) ==
    /\ last' = IF bodyId = NULL
               THEN ThrowNullPointer("getVolume", bodyId)
               ELSE [Returned("getVolume", bodyId) EXCEPT
                         !.calls = <<CallR("getVolume", <<>>, r)>>, !.ret = r]
    /\ UNCHANGED <<bodies, evalOrder>>

getClusterCount(bodyId, r) ==
    /\ last' = IF bodyId = NULL
               THEN ThrowNullPointer("getClusterCount", bodyId)
               ELSE [Returned("getClusterCount", bodyId) EXCEPT
                         !.calls = <<CallR("clusterCount", <<>>, r)>>, !.ret = r]
    /\ UNCHANGED <<bodies, evalOrder>>

\* the non-null branch is taken on bodies without links only: there the engine finds
\* no two nodes at the given distance and appends no bending link
generateBendingConstraints(bodyId, dist, matId) ==
    IF bodyId = NULL
    THEN /\ last' = ThrowNullPointer("generateBendingConstraints", bodyId)
         /\ UNCHANGED <<bodies, evalOrder>>
    ELSE IF matId = NULL
    THEN /\ last' = ThrowNullSecond("generateBendingConstraints", bodyId, <<dist, matId>>)
         /\ UNCHANGED <<bodies, evalOrder>>
    ELSE /\ bodies[bodyId].links = <<>>
         /\ last' = [Invoked("generateBendingConstraints", bodyId, <<dist, matId>>) EXCEPT
                         !.calls = <<Call("generateBendingConstraints", <<dist, matId>>)>>]
         /\ UNCHANGED <<bodies, evalOrder>>

\* the engine shuffles m_links and m_faces: pl and pf are the orders it leaves them in
randomizeConstraints(bodyId, pl, pf) ==
    IF bodyId = NULL
    THEN /\ last' = ThrowNullPointer("randomizeConstraints", bodyId)
         /\ UNCHANGED <<bodies, evalOrder>>
    ELSE /\ bodies' = [bodies EXCEPT
                          ![bodyId].links = [i \in 1..Len(@) |-> @[pl[i]]],
                          ![bodyId].faces = [i \in 1..Len(@) |-> @[pf[i]]]]
         /\ last' = [Returned("randomizeConstraints", bodyId) EXCEPT
                         !.calls = <<Call("randomizeConstraints", <<>>)>>]
         /\ UNCHANGED evalOrder

releaseCluster(bodyId, index) ==
    /\ last' = IF bodyId = NULL
               THEN ThrowNullPointer("releaseCluster", bodyId)
               ELSE [Invoked("releaseCluster", bodyId, <<index>>) EXCEPT
                         !.calls = <<Call("releaseCluster", <<index>>)>>]
    /\ UNCHANGED <<bodies, evalOrder>>

releaseClusters(bodyId) ==
    /\ last' = IF bodyId = NULL
               THEN ThrowNullPointer("releaseClusters", bodyId)
               ELSE [Returned("releaseClusters", bodyId) EXCEPT
                         !.calls = <<Call("releaseClusters", <<>>)>>]
    /\ UNCHANGED <<bodies, evalOrder>>

\* generateClusters as it would be with the two arguments exchanged
generateClusters_Exchanged(bodyId, k, maxIter) ==
    /\ last' = IF bodyId = NULL
               THEN ThrowNullPointer("generateClusters", bodyId)
               ELSE [Invoked("generateClusters", bodyId, <<k, maxIter>>) EXCEPT
                         !.calls = <<Call("generateClusters", <<maxIter, k>>)>>]
    /\ UNCHANGED <<bodies, evalOrder>>

generateClusters(bodyId, k, maxIter) ==
    /\ last' = IF bodyId = NULL
               THEN ThrowNullPointer("generateClusters", bodyId)
               ELSE [Invoked("generateClusters", bodyId, <<k, maxIter>>) EXCEPT
                         !.calls = <<Call("generateClusters", <<k, maxIter>>)>>]
    /\ UNCHANGED <<bodies, evalOrder>>

\* isInWorld as it would be returning false on the null handle without throwing
isInWorld_NoThrow(bodyId) ==
    /\ last' = IF bodyId = NULL
               THEN Returned("isInWorld", bodyId)
               ELSE LET handle == bodies[bodyId].broadphaseHandle
                    IN [Returned("isInWorld", bodyId) EXCEPT
                            !.calls = <<CallR("getBroadphaseHandle", <<>>, handle)>>,
                            !.ret = IF handle # NULL THEN 1 ELSE 0]
    /\ UNCHANGED <<bodies, evalOrder>>

isInWorld(bodyId) ==
    /\ last' = IF bodyId = NULL
               THEN ThrowNullPointer("isInWorld", bodyId)
               ELSE LET handle == bodies[bodyId].broadphaseHandle
                    IN [Returned("isInWorld", bodyId) EXCEPT
                            !.calls = <<CallR("getBroadphaseHandle", <<>>, handle)>>,
                            !.ret = IF handle # NULL THEN 1 ELSE 0]
    /\ UNCHANGED <<bodies, evalOrder>>

(***************************************************************************)
(* Specifications.                                                         *)
(***************************************************************************)
NoCall == Returned("", NULL)

\* the state after one createEmptySoftBody call
InitOneBody ==
    /\ bodies = [h \in {1} |-> EmptySoftBody(h)]
    /\ evalOrder \in EvalOrders
    /\ last = NoCall

\* mesh construction on the one body, and the four counts
NextMesh ==
    \/ \E buf \in FloatBuffers : appendNodes(1, buf)
    \/ \E buf \in IndexBuffers : appendLinks_ByteBuffer(1, buf)
    \/ \E buf \in IndexBuffers : appendLinks_ShortBuffer(1, buf)
    \/ \E buf \in IndexBuffers : appendLinks_IntBuffer(1, buf)
    \/ \E buf \in IndexBuffers : appendFaces_ByteBuffer(1, buf)
    \/ \E buf \in IndexBuffers : appendFaces_ShortBuffer(1, buf)
    \/ \E buf \in IndexBuffers : appendFaces_IntBuffer(1, buf)
    \/ \E buf \in IndexBuffers : appendTetras_ByteBuffer(1, buf)
    \/ \E buf \in IndexBuffers : appendTetras_ShortBuffer(1, buf)
    \/ \E buf \in IndexBuffers : appendTetras_IntBuffer(1, buf)
    \/ getNbNodes(1)
    \/ getNbLinks(1)
    \/ getNbFaces(1)
    \/ getNbTetras(1)

SpecMesh == InitOneBody /\ [][NextMesh]_vars

\* mesh construction on the one body, and the read-back of nodes and elements
NextReadBack ==
    \/ \E buf \in FloatBuffers : appendNodes(1, buf)
    \/ \E buf \in IndexBuffers : appendLinks_IntBuffer(1, buf)
    \/ \E buf \in IndexBuffers : appendFaces_IntBuffer(1, buf)
    \/ \E buf \in IndexBuffers : appendTetras_IntBuffer(1, buf)
    \/ \E buf \in OutBuffers : getNodesPositions(1, buf)
    \/ \E buf \in OutBuffers : getLinksIndexes(1, buf)
    \/ \E buf \in OutBuffers : getFacesIndexes(1, buf)
    \/ \E buf \in OutBuffers : getTetrasIndexes(1, buf)

SpecReadBack == InitOneBody /\ [][NextReadBack]_vars

\* the values the callers pass
Floats == {0, 2}
Ints == {0, 2}
Booleans == {0, 1}
Vectors == {Vector3f(<<2, 4, 6>>)}
Quaternions == {Quaternion(1)}
Transforms == {JmeTransform(1, <<2, 4, 6>>)}
RigidHandles == {301, 302}
WorldInfoHandles == {401}
MaterialHandles == {201}
\* the results and node masses the engine may come back with
EngineResults == {0, 5}
MassValues == {1, 2}
\* the node indexes of a body, and the orders a shuffle may leave n elements in
NodesOf(h) == 0..(Len(bodies[h].nodes) - 1)
Shuffles(n) == {p \in [1..n -> 1..n] : \A i, j \in 1..n : p[i] = p[j] => i = j}
MassesOf(h) == [1..Len(bodies[h].nodes) -> MassValues]

\* every function that takes a body handle, called with the null handle
NextNull ==
    \/ \E buf \in FloatBuffers : appendNodes(NULL, buf)
    \/ \E buf \in IndexBuffers : appendLinks_ByteBuffer(NULL, buf)
    \/ \E buf \in IndexBuffers : appendLinks_ShortBuffer(NULL, buf)
    \/ \E buf \in IndexBuffers : appendLinks_IntBuffer(NULL, buf)
    \/ \E buf \in IndexBuffers : appendFaces_ByteBuffer(NULL, buf)
    \/ \E buf \in IndexBuffers : appendFaces_ShortBuffer(NULL, buf)
    \/ \E buf \in IndexBuffers : appendFaces_IntBuffer(NULL, buf)
    \/ \E buf \in IndexBuffers : appendTetras_ByteBuffer(NULL, buf)
    \/ \E buf \in IndexBuffers : appendTetras_ShortBuffer(NULL, buf)
    \/ \E buf \in IndexBuffers : appendTetras_IntBuffer(NULL, buf)
    \/ getNbNodes(NULL)
    \/ getNbLinks(NULL)
    \/ getNbFaces(NULL)
    \/ getNbTetras(NULL)
    \/ \E buf \in OutBuffers : getNodesPositions(NULL, buf)
    \/ \E buf \in OutBuffers : getLinksIndexes(NULL, buf)
    \/ \E buf \in OutBuffers : getFacesIndexes(NULL, buf)
    \/ \E buf \in OutBuffers : getTetrasIndexes(NULL, buf)
    \/ initDefault(NULL)
    \/ \E w \in WorldInfoHandles \cup {NULL} : setSoftBodyWorldInfo(NULL, w)
    \/ getSoftBodyWorldInfo(NULL)
    \/ getMaterial(NULL)
    \/ \E n \in Ints, r \in RigidHandles \cup {NULL}, v \in Vectors \cup {JavaNull},
          c \in Booleans, f \in Floats : appendAnchor(NULL, n, r, v, c, f)
    \/ \E n \in Ints, r \in RigidHandles \cup {NULL} : removeAnchor(NULL, n, r)
    \/ \E v \in Vectors : addForce_Vector3f(NULL, v)
    \/ \E v \in Vectors, n \in Ints : addForce_Vector3fI(NULL, v, n)
    \/ \E v \in Vectors, n \in Ints : addAeroForceToNode(NULL, v, n)
    \/ \E n \in Ints, m \in Floats : setMass(NULL, n, m)
    \/ \E n \in Ints : getMass(NULL, n)
    \/ \E buf \in FloatBuffers : setMasses(NULL, buf)
    \/ \E buf \in OutBuffers : getMasses(NULL, buf)
    \/ getTotalMass(NULL)
    \/ \E m \in Floats, f \in Booleans : setTotalMass(NULL, m, f, <<>>)
    \/ \E d \in Floats : setTotalDensity(NULL, d, <<>>)
    \/ \E m \in Floats : setVolumeMass(NULL, m, <<>>)
    \/ \E d \in Floats : setVolumeDensity(NULL, d, <<>>)
    \/ \E t \in Transforms : applyPhysicsTransform(NULL, t)
    \/ \E v \in Vectors : applyPhysicsTranslate(NULL, v)
    \/ \E q \in Quaternions : applyPhysicsRotation(NULL, q)
    \/ \E v \in Vectors : applyPhysicsScale(NULL, v)
    \/ \E t \in Transforms : setPhysicsTransform(NULL, t)
    \/ \E t \in Transforms : getPhysicsTransform(NULL, t)
    \/ \E v \in Vectors : setPhysicsLocation(NULL, v)
    \/ \E v \in Vectors : getPhysicsLocation(NULL, v)
    \/ \E q \in Quaternions : setPhysicsRotation(NULL, q)
    \/ \E q \in Quaternions : getPhysicsRotation(NULL, q)
    \/ \E v \in Vectors : getBoundingCenter_Vector3f(NULL, v)
    \/ getRestLenghtScale(NULL)
    \/ \E f \in Floats : setRestLenghtScale(NULL, f)
    \/ \E bv, bf \in Booleans : setPose(NULL, bv, bf)
    \/ resetLinkRestLengths(NULL)
    \/ \E r \in EngineResults : getVolume(NULL, r)
    \/ \E r \in EngineResults : getClusterCount(NULL, r)
    \/ \E d \in Ints, m \in MaterialHandles \cup {NULL} : generateBendingConstraints(NULL, d, m)
    \/ randomizeConstraints(NULL, <<>>, <<>>)
    \/ \E i \in Ints : releaseCluster(NULL, i)
    \/ releaseClusters(NULL)
    \/ \E k, it \in Ints : generateClusters(NULL, k, it)
    \/ isInWorld(NULL)

SpecNull == InitOneBody /\ [][NextNull]_vars

\* nodes on the one body, and the scalar functions that hand their arguments to the engine
NextScalar ==
    \/ \E buf \in FloatBuffers : appendNodes(1, buf)
    \/ \E n \in NodesOf(1), m \in Floats : setMass(1, n, m)
    \/ \E n \in NodesOf(1) : getMass(1, n)
    \/ getTotalMass(1)
    \/ \E m \in Floats, f \in Booleans, ms \in MassesOf(1) : setTotalMass(1, m, f, ms)
    \/ \E d \in Floats, ms \in MassesOf(1) : setTotalDensity(1, d, ms)
    \/ \E m \in Floats, ms \in MassesOf(1) : setVolumeMass(1, m, ms)
    \/ \E d \in Floats, ms \in MassesOf(1) : setVolumeDensity(1, d, ms)
    \/ getRestLenghtScale(1)
    \/ \E f \in Floats : setRestLenghtScale(1, f)
    \/ \E bv, bf \in Booleans : setPose(1, bv, bf)
    \/ resetLinkRestLengths(1)
    \/ \E r \in EngineResults : getVolume(1, r)
    \/ \E r \in EngineResults : getClusterCount(1, r)
    \/ \E pl \in Shuffles(Len(bodies[1].links)), pf \in Shuffles(Len(bodies[1].faces)) :
          randomizeConstraints(1, pl, pf)
    \/ \E i \in Ints : releaseCluster(1, i)
    \/ releaseClusters(1)
    \/ \E k, it \in Ints : generateClusters(1, k, it)
    \/ initDefault(1)

SpecScalar == InitOneBody /\ [][NextScalar]_vars

\* the six floats of two nodes
TwoNodes == DirectBuffer(<<12, 14, 16, 18, 20, 22>>)

\* two nodes on the one body, and anchors to the rigid bodies
NextAnchor ==
    \/ appendNodes(1, TwoNodes)
    \/ \E n \in NodesOf(1), r \in RigidHandles \cup {NULL}, v \in Vectors \cup {JavaNull},
          c \in Booleans : appendAnchor(1, n, r, v, c, 1)
    \/ \E n \in NodesOf(1), r \in RigidHandles \cup {NULL} : removeAnchor(1, n, r)

SpecAnchor == InitOneBody /\ [][NextAnchor]_vars

\* the functions that take a second native handle, on a body with nodes and links
NextSecondHandle ==
    \/ appendNodes(1, TwoNodes)
    \/ appendLinks_IntBuffer(1, DirectBuffer(<<0, 1>>))
    \/ \E w \in WorldInfoHandles \cup {NULL} : setSoftBodyWorldInfo(1, w)
    \/ getSoftBodyWorldInfo(1)
    \/ \E n \in NodesOf(1), r \in {301, NULL} : appendAnchor(1, n, r, JavaNull, 0, 1)
    \/ \E n \in NodesOf(1), r \in {301, NULL} : removeAnchor(1, n, r)
    \/ \E d \in Ints, m \in MaterialHandles \cup {NULL} : generateBendingConstraints(1, d, m)

SpecSecondHandle == InitOneBody /\ [][NextSecondHandle]_vars

\* the body's nodes lie within MaxCoord of the origin on every axis
InBox(b) ==
    \A i \in 1..Len(b.nodes) : \A c \in 1..3 :
        b.nodes[i].x[c] >= 0 - MaxCoord /\ b.nodes[i].x[c] <= MaxCoord

Locations == {Vector3f(<<2, 4, 6>>), Vector3f(<<0, 0, 0>>)}

\* two nodes on the one body, moved about within the box
NextTransform ==
    \/ appendNodes(1, TwoNodes)
    \/ \E t \in Transforms : applyPhysicsTransform(1, t) /\ InBox(bodies'[1])
    \/ \E v \in Vectors : applyPhysicsTranslate(1, v) /\ InBox(bodies'[1])
    \/ \E q \in Quaternions : applyPhysicsRotation(1, q) /\ InBox(bodies'[1])
    \/ \E v \in Vectors : applyPhysicsScale(1, v) /\ InBox(bodies'[1])
    \/ \E t \in Transforms : setPhysicsTransform(1, t) /\ InBox(bodies'[1])
    \/ getPhysicsTransform(1, JmeTransform(0, Zero3))
    \/ \E p \in Locations : setPhysicsLocation(1, p) /\ InBox(bodies'[1])
    \/ getPhysicsLocation(1, Vector3f(Zero3))
    \/ \E q \in Quaternions : setPhysicsRotation(1, q) /\ InBox(bodies'[1])
    \/ getPhysicsRotation(1, Quaternion(0))
    \/ getBoundingCenter_Vector3f(1, Vector3f(Zero3))

SpecTransform == InitOneBody /\ [][NextTransform]_vars

\* what a family of functions ("mesh", "anchors", "masses", "moves", "settings") has
\* left untouched in a body
Untouched(b, family) ==
    CASE family = "mesh" -> b.links = <<>> /\ b.faces = <<>> /\ b.tetras = <<>>
      [] family = "anchors" ->
            b.anchors = <<>> /\ \A i \in 1..Len(b.nodes) : b.nodes[i].battach = 0
      [] family = "masses" -> \A i \in 1..Len(b.nodes) : b.nodes[i].mass = 1
      [] family = "moves" ->
            /\ \A i \in 1..Len(b.nodes) :
                  b.nodes[i].x = SubSeq(TwoNodes.data, 3 * i - 2, 3 * i)
            /\ b.bounds = <<Zero3, Zero3>>
            /\ b.initialWorldTransform = Identity
      [] family = "settings" -> b.margin = 0 /\ b.restLengthScale = 1

\* the output buffer handed to the get... functions
OutBuffer == DirectBuffer([i \in 1..8 |-> -7])
\* index buffers that hold one link, one face or one tetrahedron
ElementBuffers == {buf \in IndexBuffers : Len(buf.data) \in 2..4}

\* every function of the file but createEmptySoftBody, on the one body.  The functions
\* that read, and those that change nothing the body record holds, are called in every
\* state; those that build the mesh, anchor, set masses, move the body or set its margin and
\* rest length scale are called on bodies the other four families have left untouched.
\* The moves are half turns, a translation that stays in the box, and a location
\* that is the centre of the two nodes of TwoNodes.  The output buffers hold all that
\* is written to them: getMasses is given one element for each node.
NextAll ==
    \/ /\ \A f \in {"anchors", "masses", "moves", "settings"} : Untouched(bodies[1], f)
       /\ \/ appendNodes(1, TwoNodes)
          \/ \E buf \in ElementBuffers : appendLinks_ByteBuffer(1, buf)
          \/ \E buf \in ElementBuffers : appendLinks_ShortBuffer(1, buf)
          \/ \E buf \in ElementBuffers : appendLinks_IntBuffer(1, buf)
          \/ \E buf \in ElementBuffers : appendFaces_ByteBuffer(1, buf)
          \/ \E buf \in ElementBuffers : appendFaces_ShortBuffer(1, buf)
          \/ \E buf \in ElementBuffers : appendFaces_IntBuffer(1, buf)
          \/ \E buf \in ElementBuffers : appendTetras_ByteBuffer(1, buf)
          \/ \E buf \in ElementBuffers : appendTetras_ShortBuffer(1, buf)
          \/ \E buf \in ElementBuffers : appendTetras_IntBuffer(1, buf)
          \/ \E pl \in Shuffles(Len(bodies[1].links)), pf \in Shuffles(Len(bodies[1].faces)) :
                randomizeConstraints(1, pl, pf)
          \/ \E m \in MaterialHandles \cup {NULL} : generateBendingConstraints(1, 2, m)
    \/ /\ \A f \in {"mesh", "masses", "moves", "settings"} : Untouched(bodies[1], f)
       /\ \/ \E n \in NodesOf(1), r \in {301, NULL} : appendAnchor(1, n, r, JavaNull, 0, 1)
          \/ \E n \in NodesOf(1), r \in {301, NULL} : removeAnchor(1, n, r)
    \/ /\ \A f \in {"mesh", "anchors", "moves", "settings"} : Untouched(bodies[1], f)
       /\ \/ \E n \in NodesOf(1) : setMass(1, n, 2)
          \/ setMasses(1, DirectBuffer(<<2>>))
          \/ \E ms \in MassesOf(1) : setTotalMass(1, 2, 0, ms)
          \/ \E ms \in MassesOf(1) : setTotalDensity(1, 2, ms)
          \/ \E ms \in MassesOf(1) : setVolumeMass(1, 2, ms)
          \/ \E ms \in MassesOf(1) : setVolumeDensity(1, 2, ms)
    \/ /\ \A f \in {"mesh", "anchors", "masses", "settings"} : Untouched(bodies[1], f)
       /\ \/ applyPhysicsTransform(1, JmeTransform(2, Zero3))
          \/ applyPhysicsTranslate(1, Vector3f(<<0, 0, -10>>))
          \/ applyPhysicsRotation(1, Quaternion(2))
          \/ \E v \in Vectors : applyPhysicsScale(1, v)
          \/ setPhysicsTransform(1, JmeTransform(2, Zero3))
          \/ setPhysicsLocation(1, Vector3f(<<15, 17, 19>>))
          \/ setPhysicsRotation(1, Quaternion(2))
       /\ InBox(bodies'[1])
    \/ /\ \A f \in {"mesh", "anchors", "masses", "moves"} : Untouched(bodies[1], f)
       /\ \/ setRestLenghtScale(1, 2)
          \/ initDefault(1)
    \/ \E w \in WorldInfoHandles \cup {NULL} : setSoftBodyWorldInfo(1, w)
    \/ \E v \in Vectors : addForce_Vector3f(1, v)
    \/ \E v \in Vectors, n \in NodesOf(1) : addForce_Vector3fI(1, v, n)
    \/ \E v \in Vectors, n \in NodesOf(1) : addAeroForceToNode(1, v, n)
    \/ setPose(1, 1, 0)
    \/ resetLinkRestLengths(1)
    \/ releaseCluster(1, 0)
    \/ releaseClusters(1)
    \/ generateClusters(1, 2, 0)
    \/ getNbNodes(1)
    \/ getNbLinks(1)
    \/ getNbFaces(1)
    \/ getNbTetras(1)
    \/ getNodesPositions(1, OutBuffer)
    \/ getLinksIndexes(1, OutBuffer)
    \/ getFacesIndexes(1, OutBuffer)
    \/ getTetrasIndexes(1, OutBuffer)
    \/ getSoftBodyWorldInfo(1)
    \/ getMaterial(1)
    \/ \E n \in NodesOf(1) : getMass(1, n)
    \/ getMasses(1, DirectBuffer([i \in 1..Len(bodies[1].nodes) |-> -7]))
    \/ getTotalMass(1)
    \/ getRestLenghtScale(1)
    \/ \E r \in EngineResults : getVolume(1, r)
    \/ \E r \in EngineResults : getClusterCount(1, r)
    \/ getPhysicsTransform(1, JmeTransform(0, Zero3))
    \/ getPhysicsLocation(1, Vector3f(Zero3))
    \/ getPhysicsRotation(1, Quaternion(0))
    \/ getBoundingCenter_Vector3f(1, Vector3f(Zero3))
    \/ isInWorld(1)

SpecAll == InitOneBody /\ [][NextAll]_vars

\* mass buffers handed to setMasses: up to one element more than the body can have
\* nodes, with the masses (-1, 0, ...) or (2, 3, ...)
MassBuffers ==
    {DirectBuffer([i \in 1..n |-> m + i]) : n \in 0..(MaxNodes + 1), m \in {-2, 1}}

\* the functions that take a buffer or a node index, with direct buffers of every
\* capacity and with a buffer that is not direct (NoBuffer: no address, capacity -1).
\* Anchors are made on bodies with unchanged masses, and masses set on bodies without
\* anchors.
NextBuffers ==
    \/ \E buf \in {TwoNodes, DirectBuffer(<<12, 14, 16>>), NoBuffer} : appendNodes(1, buf)
    \/ appendLinks_ByteBuffer(1, NoBuffer)
    \/ appendLinks_ShortBuffer(1, NoBuffer)
    \/ appendLinks_IntBuffer(1, NoBuffer)
    \/ appendFaces_ByteBuffer(1, NoBuffer)
    \/ appendFaces_ShortBuffer(1, NoBuffer)
    \/ appendFaces_IntBuffer(1, NoBuffer)
    \/ appendTetras_ByteBuffer(1, NoBuffer)
    \/ appendTetras_ShortBuffer(1, NoBuffer)
    \/ appendTetras_IntBuffer(1, NoBuffer)
    \/ getLinksIndexes(1, OutBuffer)
    \/ getFacesIndexes(1, OutBuffer)
    \/ getTetrasIndexes(1, OutBuffer)
    \/ /\ Untouched(bodies[1], "anchors")
       /\ \E buf \in MassBuffers \cup {NoBuffer} : setMasses(1, buf)
    \/ \E buf \in {b \in OutBuffers : Len(b.data) <= MaxNodes + 1} \cup {NoBuffer} :
          getMasses(1, buf)
    \/ \E n \in NodesOf(1) : getMass(1, n)
    \/ /\ Untouched(bodies[1], "masses")
       /\ \E n \in NodesOf(1) : appendAnchor(1, n, 301, JavaNull, 0, 1)
    \/ \E n \in -1..MaxNodes : removeAnchor(1, n, 301)

SpecBuffers == InitOneBody /\ [][NextBuffers]_vars

\* index buffers that hold one link, face or tetrahedron of nodes 1 and 128: 128 is the
\* least index that does not fit a jbyte
WideBuffers ==
    {DirectBuffer([i \in 1..n |-> IF i = f THEN 128 ELSE 1]) : n \in 2..4, f \in 0..1}

\* a body of 129 nodes, as appendNodes leaves it when given the floats 1, ..., 387
InitWide ==
    /\ bodies = [h \in {1} |->
                    [EmptySoftBody(h) EXCEPT
                        !.nodes = [i \in 1..129 |->
                                      NewNode(<<3 * i - 2, 3 * i - 1, 3 * i>>, 1)]]]
    /\ evalOrder \in EvalOrders
    /\ last = NoCall

\* the nine index-append functions on that body
NextWide ==
    \/ \E buf \in WideBuffers : appendLinks_ByteBuffer(1, buf)
    \/ \E buf \in WideBuffers : appendLinks_ShortBuffer(1, buf)
    \/ \E buf \in WideBuffers : appendLinks_IntBuffer(1, buf)
    \/ \E buf \in WideBuffers : appendFaces_ByteBuffer(1, buf)
    \/ \E buf \in WideBuffers : appendFaces_ShortBuffer(1, buf)
    \/ \E buf \in WideBuffers : appendFaces_IntBuffer(1, buf)
    \/ \E buf \in WideBuffers : appendTetras_ByteBuffer(1, buf)
    \/ \E buf \in WideBuffers : appendTetras_ShortBuffer(1, buf)
    \/ \E buf \in WideBuffers : appendTetras_IntBuffer(1, buf)

SpecWide == InitWide /\ [][NextWide]_vars

\* the addresses new btSoftBody may come back at
Handles == 1..MaxBodies

InitNoBody ==
    /\ bodies = [h \in {} |-> EmptySoftBody(h)]
    /\ evalOrder \in EvalOrders
    /\ last = NoCall

\* bodies are created, given nodes and a world info, and asked for world info and material
NextCreate ==
    \/ \E h \in Handles : createEmptySoftBody(h)
    \/ \E h \in DOMAIN bodies : appendNodes(h, TwoNodes)
    \/ \E h \in DOMAIN bodies \cup {NULL} :
          \E w \in {bodies[x].worldInfo : x \in DOMAIN bodies} \cup WorldInfoHandles \cup {NULL} :
             setSoftBodyWorldInfo(h, w)
    \/ \E h \in DOMAIN bodies \cup {NULL} : getSoftBodyWorldInfo(h)
    \/ \E h \in DOMAIN bodies \cup {NULL} : getMaterial(h)

SpecCreate == InitNoBody /\ [][NextCreate]_vars

(***************************************************************************)
(* Properties of the buffer-driven append functions.                       *)
(***************************************************************************)
LinkOps == {"appendLinks_ByteBuffer", "appendLinks_ShortBuffer", "appendLinks_IntBuffer"}
FaceOps == {"appendFaces_ByteBuffer", "appendFaces_ShortBuffer", "appendFaces_IntBuffer"}
TetraOps == {"appendTetras_ByteBuffer", "appendTetras_ShortBuffer", "appendTetras_IntBuffer"}
IndexOps == LinkOps \cup FaceOps \cup TetraOps

\* the tuple size of an index-append function, and the engine method it feeds
TupleSize(op) == IF op \in LinkOps THEN 2 ELSE IF op \in FaceOps THEN 3 ELSE 4
EngineMethod(op) ==
    IF op \in LinkOps THEN "appendLink" ELSE IF op \in FaceOps THEN "appendFace" ELSE "appendTetra"

Range(seq) == {seq[i] : i \in 1..Len(seq)}

\* the last call was op, on a live body, and returned normally
Completed(l, ops) == l.op \in ops /\ l.bodyId # NULL /\ l.exc = NoException

\* C3: appendNodes on a non-null body with a float buffer of capacity n appends exactly
\* floor(n/3) nodes after the nodes the body had; the k-th has the coordinates
\* (buf[3k], buf[3k+1], buf[3k+2]) and mass 1; only the elements below 3*floor(n/3),
\* hence none of the trailing n mod 3 and none at index >= n, are read.
C3_AppendNodesStep ==
    Completed(last', {"appendNodes"}) =>
        LET buf == last'.inp.data
            n == Len(buf)
            cnt == n \div 3
            new == [k \in 1..cnt |-> NewNode(<<buf[3 * k - 2], buf[3 * k - 1], buf[3 * k]>>, 1)]
        IN /\ bodies'[last'.bodyId].nodes = bodies[last'.bodyId].nodes \o new
           /\ Len(last'.calls) = cnt
           /\ \A k \in 1..cnt :
                last'.calls[k] =
                    Call("appendNode", <<<<buf[3 * k - 2], buf[3 * k - 1], buf[3 * k]>>, 1>>)
           /\ Range(last'.reads) = 0..(3 * cnt - 1)

C3_AppendNodes == [][C3_AppendNodesStep]_vars

\* C3 witness: a buffer of 8 floats has been appended as two nodes, two floats left over
C3_Witness ==
    /\ Completed(last, {"appendNodes"})
    /\ Len(last.inp.data) = 8
    /\ Len(last.calls) = 2
    /\ Len(bodies[1].nodes) = 2

\* C4: each of the nine index-append functions, on a non-null body with a buffer of
\* capacity n, calls the engine's append exactly floor(n/k) times (k = 2, 3, 4 for links,
\* faces, tetras) and loads only elements below k*floor(n/k): every load is inside the
\* buffer and the trailing n mod k elements are never loaded.
C4_IndexAppendCounts ==
    Completed(last, IndexOps) =>
        LET n == Len(last.inp.data)
            k == TupleSize(last.op)
            cnt == n \div k
        IN /\ Len(last.calls) = cnt
           /\ \A j \in 1..cnt : last.calls[j].m = EngineMethod(last.op)
           /\ \A j \in 1..Len(last.reads) : last.reads[j] \in 0..(n - 1)
           /\ Range(last.reads) = 0..(k * cnt - 1)

\* C4 witness: a tetra buffer of 7 elements made one engine call and left 3 elements unread
C4_Witness ==
    /\ Completed(last, TetraOps)
    /\ Len(last.inp.data) = 7
    /\ Len(last.calls) = 1

\* C5: the j-th tuple is handed to the engine in buffer order, the first buffer element
\* of the tuple being the first argument, whatever the argument evaluation order.
C5_BufferOrder ==
    Completed(last, IndexOps) =>
        LET buf == last.inp.data
            k == TupleSize(last.op)
        IN \A j \in 1..Len(last.calls) :
              last.calls[j].args = [a \in 1..k |-> buf[k * (j - 1) + a]]

\* C5, under the left-to-right evaluation order only
C5_BufferOrderLeftToRight == evalOrder = "LeftToRight" => C5_BufferOrder

\* C7: a fresh body has no nodes, links, faces, tetras; each append call adds
\* floor(n/3), floor(n/2), floor(n/3), floor(n/4) to the count of its kind and leaves the
\* other counts alone; getNb... returns the count of its kind.
Counts(b) == <<Len(b.nodes), Len(b.links), Len(b.faces), Len(b.tetras)>>

C7_CountsStep ==
    LET l == last'
        h == l.bodyId
        n == Len(l.inp.data)
        was == Counts(bodies[h])
        is == Counts(bodies'[h])
    IN (h # NULL /\ l.exc = NoException) =>
        /\ l.op = "appendNodes" => is = [was EXCEPT ![1] = @ + n \div 3]
        /\ l.op \in LinkOps => is = [was EXCEPT ![2] = @ + n \div 2]
        /\ l.op \in FaceOps => is = [was EXCEPT ![3] = @ + n \div 3]
        /\ l.op \in TetraOps => is = [was EXCEPT ![4] = @ + n \div 4]
        /\ l.op = "getNbNodes" => is = was /\ l.ret = was[1]
        /\ l.op = "getNbLinks" => is = was /\ l.ret = was[2]
        /\ l.op = "getNbFaces" => is = was /\ l.ret = was[3]
        /\ l.op = "getNbTetras" => is = was /\ l.ret = was[4]

C7_Counts ==
    /\ \A h \in DOMAIN bodies : Counts(bodies[h]) = <<0, 0, 0, 0>>
    /\ [][C7_CountsStep]_vars

\* C7 witness: getNbTetras reports 1 on a body that also has nodes, a link and no face
C7_Witness ==
    /\ Completed(last, {"getNbTetras"})
    /\ last.ret = 1
    /\ Counts(bodies[1]) = <<2, 1, 0, 1>>

(***************************************************************************)
(* Properties of the read-back functions.                                  *)
(***************************************************************************)
\* C8: on a fresh body, appendNodes with a buffer of 3m floats immediately followed by
\* getNodesPositions into a buffer of capacity at least 3m stores the same 3m values at
\* the same positions.
C8_NodesRoundTripStep ==
    LET in == last.inp.data
        m == Len(in) \div 3
    IN (/\ Completed(last, {"appendNodes"})
        /\ Len(in) = 3 * m
        /\ Len(bodies[last.bodyId].nodes) = m
        /\ Completed(last', {"getNodesPositions"})
        /\ last'.bodyId = last.bodyId
        /\ Len(last'.inp.data) >= 3 * m)
       => /\ Len(last'.out) = Len(last'.inp.data)
          /\ \A i \in 1..(3 * m) : last'.out[i] = in[i]

C8_NodesRoundTrip == [][C8_NodesRoundTripStep]_vars

\* C8 witness: six floats were appended to the fresh body and read back into 8 elements
C8_Witness ==
    /\ Completed(last, {"getNodesPositions"})
    /\ Len(bodies[1].nodes) = 2
    /\ Len(last.out) = 8
    /\ SubSeq(last.out, 1, 6) = <<12, 14, 16, 18, 20, 22>>

\* the read-back function of each index-append function, and the array it reads
GetterOf(op) ==
    IF op \in LinkOps THEN "getLinksIndexes"
    ELSE IF op \in FaceOps THEN "getFacesIndexes" ELSE "getTetrasIndexes"
ElemsOf(b, op) ==
    IF op \in LinkOps \cup {"getLinksIndexes"} THEN b.links
    ELSE IF op \in FaceOps \cup {"getFacesIndexes"} THEN b.faces ELSE b.tetras

\* C9: on a body with N >= 1 nodes, appendLinks / appendFaces / appendTetras with index
\* tuples whose values are all in 0..N-1, immediately followed by the matching
\* get...Indexes into a buffer that holds all stored elements, stores for every stored
\* element, in storage order, node indices in 0..N-1, and those of the elements just
\* appended equal the tuples of the append buffer, in the same order.
C9_IndexRoundTripStep ==
    LET in == last.inp.data
        k == TupleSize(last.op)
        cnt == Len(in) \div k
        b == bodies[last.bodyId]
        N == Len(b.nodes)
        size == Len(ElemsOf(b, last.op))
        out == last'.out
    IN (/\ Completed(last, IndexOps)
        /\ N >= 1
        /\ \A i \in 1..Len(in) : in[i] \in 0..(N - 1)
        /\ \A e \in 1..size : \A j \in 1..k : ElemsOf(b, last.op)[e][j] \in 0..(N - 1)
        /\ Completed(last', {GetterOf(last.op)})
        /\ last'.bodyId = last.bodyId
        /\ Len(last'.inp.data) >= k * size)
       => /\ \A i \in 1..(k * size) : out[i] \in 0..(N - 1)
          /\ \A e \in 1..size : \A j \in 1..k : out[k * (e - 1) + j] = ElemsOf(b, last.op)[e][j]
          /\ \A i \in 1..(k * cnt) : out[k * (size - cnt) + i] = in[i]

C9_IndexRoundTrip == [][C9_IndexRoundTripStep]_vars

\* C9, for builds that evaluate call arguments left to right
C9_IndexRoundTripLeftToRight ==
    [][evalOrder = "LeftToRight" => C9_IndexRoundTripStep]_vars

(***************************************************************************)
(* Properties of the handle checks.                                        *)
(***************************************************************************)
\* C1: every function that takes a body handle, called with the handle 0, throws a
\* NullPointerException with the message 'The native object does not exist.', makes
\* no call on an engine object, reads and writes no buffer and no math object, and
\* returns the default value (0, false, nothing).
C1_NullHandleStep ==
    (last'.op # "" /\ last'.bodyId = NULL)
    => /\ last'.exc = [class |-> "java/lang/NullPointerException",
                       msg |-> "The native object does not exist."]
       /\ last'.calls = <<>>
       /\ bodies' = bodies
       /\ last'.reads = <<>> /\ last'.writes = <<>> /\ last'.out = <<>>
       /\ last'.inp = NoBuffer
       /\ last'.conv = <<>> /\ last'.obj = JavaNull
       /\ last'.ret = 0

C1_NullHandle == [][C1_NullHandleStep]_vars

C1_Witness ==
    /\ last.op = "isInWorld"
    /\ last.bodyId = NULL
    /\ last.exc = NullPointerException
    /\ last.ret = 0

\* the functions that take a second native handle, and its place among the arguments
SecondHandleOps ==
    {"setSoftBodyWorldInfo", "appendAnchor", "removeAnchor", "generateBendingConstraints"}
SecondHandle(l) == IF l.op = "setSoftBodyWorldInfo" THEN l.args[1] ELSE l.args[2]

\* C2: setSoftBodyWorldInfo, appendAnchor, removeAnchor and generateBendingConstraints
\* on a live body with the second handle 0 throw a NullPointerException and leave the
\* body (world info, anchors, attach flags, links) as it was.
C2_SecondHandleStep ==
    (/\ last'.op \in SecondHandleOps
     /\ last'.bodyId # NULL
     /\ SecondHandle(last') = NULL)
    => /\ last'.exc.class = "java/lang/NullPointerException"
       /\ bodies'[last'.bodyId].worldInfo = bodies[last'.bodyId].worldInfo
       /\ bodies'[last'.bodyId].anchors = bodies[last'.bodyId].anchors
       /\ bodies'[last'.bodyId].nodes = bodies[last'.bodyId].nodes
       /\ bodies'[last'.bodyId].links = bodies[last'.bodyId].links
       /\ bodies' = bodies

C2_SecondHandle == [][C2_SecondHandleStep]_vars

C2_Witness ==
    /\ last.op = "removeAnchor"
    /\ last.bodyId = 1
    /\ last.args = <<0, NULL>>
    /\ last.exc = NullPointerException
    /\ Len(bodies[1].anchors) = 1
    /\ bodies[1].nodes[1].battach = 1
    /\ Len(bodies[1].links) = 1
    /\ bodies[1].worldInfo = 401

(***************************************************************************)
(* Properties of the scalar functions.                                     *)
(***************************************************************************)
ScalarOps ==
    {"setMass", "getMass", "getTotalMass", "setTotalMass", "setTotalDensity",
     "setVolumeMass", "setVolumeDensity", "getRestLenghtScale", "setRestLenghtScale",
     "setPose", "resetLinkRestLengths", "getVolume", "getClusterCount",
     "randomizeConstraints", "releaseCluster", "releaseClusters", "generateClusters",
     "initDefault"}

\* one call on the engine body, named m, with the function's arguments, whose result
\* the function returns
PassesThrough(l, m) ==
    /\ Len(l.calls) = 1
    /\ l.calls[1].m = m
    /\ l.calls[1].args = l.args
    /\ l.ret = l.calls[1].ret

\* C6, with the names taken literally: each scalar function on a live body makes exactly one call on the
\* engine body, the call of the function's own name, with the function's scalar
\* arguments unchanged and in the same order, and returns the engine's result.
C6_SameName == Completed(last, ScalarOps) => PassesThrough(last, last.op)

\* the engine method behind a scalar function
EngineName(op) ==
    CASE op = "getRestLenghtScale" -> "getRestLengthScale"
      [] op = "setRestLenghtScale" -> "setRestLengthScale"
      [] op = "getClusterCount" -> "clusterCount"
      [] op = "initDefault" -> "initDefaults"
      [] OTHER -> op

\* C6, amended: each scalar function on a live body makes exactly one call on the
\* engine body, with the function's scalar arguments unchanged and in the same order,
\* and returns the engine's result; the call has the function's own name, except that
\* getRestLenghtScale, setRestLenghtScale, getClusterCount and initDefault call
\* getRestLengthScale, setRestLengthScale, clusterCount and initDefaults.
C6_PassThrough == Completed(last, ScalarOps) => PassesThrough(last, EngineName(last.op))

C6_Witness ==
    /\ Completed(last, {"generateClusters"})
    /\ last.args = <<2, 0>>
    /\ last.calls = <<Call("generateClusters", <<2, 0>>)>>
    /\ Len(bodies[1].nodes) = 2

(***************************************************************************)
(* Properties of removeAnchor.                                             *)
(***************************************************************************)
\* the positions of the anchors of node nodeId to the rigid body rigid
Matching(anchors, nodeId, rigid) ==
    {i \in 1..Len(anchors) : anchors[i].node = nodeId /\ anchors[i].body = rigid}

\* C10: removeAnchor(nodeId, rigid) on a body with at least one anchor of node nodeId
\* to rigid removes exactly the anchor at the lowest matching position p: the sequence
\* is one shorter, holds at p the anchor that was last (when p was not the last
\* position), and is unchanged at every other position.
C10_RemoveAnchorStep ==
    LET pre == bodies[1].anchors
        post == bodies'[1].anchors
        found == Matching(pre, last'.args[1], last'.args[2])
    IN (Completed(last', {"removeAnchor"}) /\ found # {})
       => LET p == Min(found)
          IN /\ Len(post) = Len(pre) - 1
             /\ p < Len(pre) => post[p] = pre[Len(pre)]
             /\ \A i \in 1..Len(post) : i # p => post[i] = pre[i]

C10_RemoveAnchor == [][C10_RemoveAnchorStep]_vars

\* three anchors were there, the first and the last of them matched, and the second
\* and the last are left, the last in the first place
C10_Witness ==
    /\ Completed(last, {"removeAnchor"})
    /\ last.args = <<0, 301>>
    /\ Len(bodies[1].anchors) = 2
    /\ bodies[1].anchors[1] = [node |-> 0, body |-> 301, local |-> <<2, 4, 6>>, influence |-> 1]
    /\ bodies[1].anchors[2] = [node |-> 1, body |-> 302, local |-> <<18, 20, 22>>, influence |-> 1]

\* C11: removeAnchor(nodeId, rigid) with non-null handles on a body without an anchor of
\* node nodeId to rigid changes nothing: anchors, attach flags and all other body state
\* are as before.
C11_RemoveAbsentStep ==
    (/\ Completed(last', {"removeAnchor"})
     /\ Matching(bodies[last'.bodyId].anchors, last'.args[1], last'.args[2]) = {})
    => bodies' = bodies

C11_RemoveAbsent == [][C11_RemoveAbsentStep]_vars

\* node 0 is anchored to 301 only, and the last call was to remove its anchor to 302
C11_Witness ==
    /\ Completed(last, {"removeAnchor"})
    /\ last.args = <<0, 302>>
    /\ Len(bodies[1].anchors) = 1
    /\ bodies[1].anchors[1].node = 0 /\ bodies[1].anchors[1].body = 301
    /\ bodies[1].nodes[1].battach = 1

\* C12: after any sequence of appendAnchor and removeAnchor calls, a node's attach flag
\* is 1 exactly when at least one anchor of the body references the node.
C12_AttachFlag ==
    \A h \in DOMAIN bodies : \A i \in 1..Len(bodies[h].nodes) :
        (bodies[h].nodes[i].battach = 1)
        <=> (\E a \in 1..Len(bodies[h].anchors) : bodies[h].anchors[a].node = i - 1)

\* the anchors as a multiset of (node, rigid body, pivot, influence)
AnchorBag(anchors) ==
    [a \in Range(anchors) |-> Cardinality({i \in 1..Len(anchors) : anchors[i] = a})]
AttachFlags(b) == [i \in 1..Len(b.nodes) |-> b.nodes[i].battach]

\* C13: appendAnchor(nodeId, rigid, ...) immediately followed by removeAnchor(nodeId,
\* rigid) leaves the anchors (as a multiset) and every node's attach flag as they were
\* before the appendAnchor call.
C13_RemoveUndoesAppendStep ==
    (/\ Completed(last, {"appendAnchor"})
     /\ Completed(last', {"removeAnchor"})
     /\ last'.bodyId = last.bodyId
     /\ last'.args = <<last.args[1], last.args[2]>>)
    => /\ AnchorBag(bodies'[last.bodyId].anchors) = AnchorBag(last.before.anchors)
       /\ AttachFlags(bodies'[last.bodyId]) = AttachFlags(last.before)

C13_RemoveUndoesAppend == [][C13_RemoveUndoesAppendStep]_vars

\* C14: appendAnchor with non-null handles makes exactly one engine appendAnchor call
\* with the given node, rigid body and influence and the negated collision flag; with a
\* pivot, the converted pivot is passed; without, the overload without a pivot is
\* called and no vector is converted.
C14_AppendAnchorCall ==
    Completed(last, {"appendAnchor"}) =>
        LET nodeId == last.args[1]
            rigid == last.args[2]
            pivot == last.args[3]
            disable == IF last.args[4] = 0 THEN 1 ELSE 0
            influence == last.args[5]
        IN /\ Len(last.calls) = 1
           /\ last.calls[1].m = "appendAnchor"
           /\ IF pivot.isNull
              THEN /\ last.calls[1].args = <<nodeId, rigid, disable, influence>>
                   /\ last.conv = <<>>
              ELSE /\ last.calls[1].args =
                          <<nodeId, rigid, <<pivot.x, pivot.y, pivot.z>>, disable, influence>>
                   /\ last.conv = <<"Vector3f->btVector3">>

C14_Witness ==
    /\ Completed(last, {"appendAnchor"})
    /\ last.args = <<1, 302, Vector3f(<<2, 4, 6>>), 1, 1>>
    /\ last.calls = <<Call("appendAnchor", <<1, 302, <<2, 4, 6>>, 0, 1>>)>>
    /\ Len(bodies[1].anchors) = 2

(***************************************************************************)
(* Properties of createEmptySoftBody, getMaterial and the world info.      *)
(***************************************************************************)
\* C15: createEmptySoftBody returns a non-zero handle, never returned before, to a new
\* body without nodes, links, faces, tetras and anchors, with margin 0, a null user
\* pointer, a world info no other body has, and exactly one material with stiffness
\* coefficients 1 and flags 0.
C15_CreateStep ==
    last'.op = "createEmptySoftBody" =>
        LET h == last'.ret
            b == bodies'[h]
        IN /\ h # 0
           /\ last'.exc = NoException
           /\ h \notin DOMAIN bodies
           /\ DOMAIN bodies' = DOMAIN bodies \cup {h}
           /\ \A x \in DOMAIN bodies : bodies'[x] = bodies[x]
           /\ b.nodes = <<>> /\ b.links = <<>> /\ b.faces = <<>> /\ b.tetras = <<>>
           /\ b.anchors = <<>>
           /\ b.margin = 0
           /\ b.userPointer = 0
           /\ \A x \in DOMAIN bodies : b.worldInfo # bodies[x].worldInfo
           /\ Len(b.materials) = 1
           /\ b.materials[1].kLST = 1 /\ b.materials[1].kAST = 1 /\ b.materials[1].kVST = 1
           /\ b.materials[1].flags = 0

C15_Create == [][C15_CreateStep]_vars

\* the second body was just created, the first has nodes and a world info set by a call
C15_Witness ==
    /\ last.op = "createEmptySoftBody"
    /\ Cardinality(DOMAIN bodies) = 2
    /\ \E x \in DOMAIN bodies :
          /\ x # last.ret
          /\ Len(bodies[x].nodes) = 2
          /\ bodies[x].worldInfo = 401
    /\ bodies[last.ret].nodes = <<>>

(***************************************************************************)
(* Properties of the location, rotation and transform functions.           *)
(***************************************************************************)
\* the midpoint of the two corners of the bounding box
Midpoint(b) == [c \in 1..3 |-> (b.bounds[1][c] + b.bounds[2][c]) \div 2]
AsTriple(v) == <<v.x, v.y, v.z>>
\* the engine moved both corners of the bounding box by vector v
CornersMoved(before, after, v) ==
    \A k \in 1..2 : \A c \in 1..3 : after.bounds[k][c] = before.bounds[k][c] + v[c]

\* the midpoint is a sum halved without a remainder, as it is in floating point
ExactMidpoint ==
    \A h \in DOMAIN bodies : \A c \in 1..3 :
        (bodies[h].bounds[1][c] + bodies[h].bounds[2][c]) % 2 = 0

\* C18: setPhysicsLocation(p) makes one engine translate call with p minus the midpoint
\* of the bounding box before the call; where the engine moved both corners by that
\* vector, getPhysicsLocation and getBoundingCenter right after return p, and a second
\* setPhysicsLocation(p) translates by the zero vector.
C18_LocationStep ==
    /\ Completed(last', {"setPhysicsLocation"})
       => LET p == AsTriple(last'.args[1])
              v == [c \in 1..3 |-> p[c] - Midpoint(bodies[last'.bodyId])[c]]
          IN /\ last'.calls = <<Call("translate", <<v>>)>>
             /\ CornersMoved(bodies[last'.bodyId], bodies'[last'.bodyId], v)
                => Midpoint(bodies'[last'.bodyId]) = p
    /\ (/\ Completed(last, {"setPhysicsLocation"})
        /\ CornersMoved(last.before, bodies[last.bodyId], last.calls[1].args[1])
        /\ last'.bodyId = last.bodyId)
       => /\ Completed(last', {"getPhysicsLocation", "getBoundingCenter"})
             => last'.obj = last.args[1]
          /\ (Completed(last', {"setPhysicsLocation"}) /\ last'.args = last.args)
             => last'.calls = <<Call("translate", <<Zero3>>)>>

C18_Location == [][C18_LocationStep]_vars

\* the box of two nodes was moved from (15, 17, 19) to (2, 4, 6), and read back
C18_Witness ==
    /\ Completed(last, {"getPhysicsLocation"})
    /\ last.obj = Vector3f(<<2, 4, 6>>)
    /\ Len(bodies[1].nodes) = 2
    /\ bodies[1].initialWorldTransform.origin = <<-13, -13, -13>>
    /\ bodies[1].bounds = <<<<-1, 1, 3>>, <<5, 7, 9>>>>

\* the body after applyPhysicsTransform with the Java transform t
Applied(b, t) ==
    btSoftBody_transform(b, Transform(t.rot.turns, AsTriple(t.translation)))
\* inverse(w) * t as a Java transform, the inverse on the left
InverseTimes(w, t) ==
    LET inv == TransformInverse(w)
        product == TransformMul(inv, Transform(t.rot.turns, AsTriple(t.translation)))
    IN JmeTransform(product.basis, product.origin)

\* C19: setPhysicsTransform(T) has the effect of applyPhysicsTransform(inverse(W) * T),
\* W being the body's initial world transform at the call, which getPhysicsTransform
\* reports; with W the identity it has the effect of applyPhysicsTransform(T); and
\* setPhysicsRotation(R) rotates the body by basis(inverse(W)) * R.
C19_SetTransformStep ==
    LET b == bodies[last'.bodyId]
        W == b.initialWorldTransform
    IN /\ Completed(last', {"applyPhysicsTransform"})
          => bodies'[last'.bodyId] = Applied(b, last'.args[1])
       /\ Completed(last', {"getPhysicsTransform"})
          => last'.obj = JmeTransform(W.basis, W.origin)
       /\ Completed(last', {"setPhysicsTransform"})
          => /\ bodies'[last'.bodyId] = Applied(b, InverseTimes(W, last'.args[1]))
             /\ W = Identity => bodies'[last'.bodyId] = Applied(b, last'.args[1])
       /\ Completed(last', {"setPhysicsRotation"})
          => LET turns == (TransformInverse(W).basis + last'.args[1].turns) % 4
             IN /\ last'.calls = <<Call("rotate", <<turns>>)>>
                /\ bodies'[last'.bodyId] = btSoftBody_rotate(b, turns)

C17_WorldInfoStep ==
    \A h \in DOMAIN bodies :
        /\ Completed(last', {"setSoftBodyWorldInfo"}) /\ last'.bodyId = h
           => /\ last'.args[1] # NULL
              /\ bodies'[h] = [bodies[h] EXCEPT !.worldInfo = last'.args[1]]
        /\ ~(Completed(last', {"setSoftBodyWorldInfo"}) /\ last'.bodyId = h)
           => bodies'[h].worldInfo = bodies[h].worldInfo
        /\ Completed(last', {"getSoftBodyWorldInfo"}) /\ last'.bodyId = h
           => last'.ret = bodies[h].worldInfo

C17_WorldInfo == [][C17_WorldInfoStep]_vars

\* getSoftBodyWorldInfo returning a world info that was set, on a body that has nodes
\* and has been moved
C17_Witness ==
    /\ Completed(last, {"getSoftBodyWorldInfo"})
    /\ last.ret \in WorldInfoHandles
    /\ Len(bodies[1].nodes) = 2
    /\ bodies[1].initialWorldTransform # Identity

\* the functions that only read the body
Queries ==
    {"getNbNodes", "getNbLinks", "getNbFaces", "getNbTetras", "getNodesPositions",
     "getLinksIndexes", "getFacesIndexes", "getTetrasIndexes", "getSoftBodyWorldInfo",
     "getMaterial", "getMass", "getMasses", "getTotalMass", "getPhysicsTransform",
     "getPhysicsLocation", "getPhysicsRotation", "getBoundingCenter", "isInWorld"}

\* C20: a query that returns leaves every body as it was (nodes, links, faces, tetras,
\* anchors, masses, world info, bounds, initial world transform and all the rest); and
\* the same query made again next, with the same arguments, returns, writes to the
\* buffer and writes to the Java object what it did the first time.
C20_QueryStep ==
    Completed(last', Queries)
    => /\ bodies' = bodies
       /\ ( /\ Completed(last, Queries)
            /\ last.op = last'.op /\ last.bodyId = last'.bodyId
            /\ last.args = last'.args /\ last.inp = last'.inp )
          => /\ last'.ret = last.ret
             /\ last'.out = last.out
             /\ last'.obj = last.obj

C20_Query == [][C20_QueryStep]_vars

\* getMasses returning on a body with two nodes of which one has another mass than
\* the other, after another call
C20_Witness ==
    /\ Completed(last, {"getMasses"})
    /\ Len(bodies[1].nodes) = 2
    /\ bodies[1].nodes[1].mass # bodies[1].nodes[2].mass
    /\ last.out = <<bodies[1].nodes[1].mass, bodies[1].nodes[2].mass>>

\* C21: getNodesPositions, getLinksIndexes, getFacesIndexes and getTetrasIndexes store
\* to no element of the output buffer outside 0..capacity-1, whatever the capacity of
\* the buffer and the numbers of nodes, links, faces and tetrahedra of the body.
C21_WritesInBuffer ==
    Completed(last, {"getNodesPositions", "getLinksIndexes", "getFacesIndexes",
                     "getTetrasIndexes"})
    => \A j \in 1..Len(last.writes) :
          last.writes[j] >= 0 /\ last.writes[j] < GetDirectBufferCapacity(last.inp)

\* C22: setMasses, getMasses, removeAnchor, getLinksIndexes, getFacesIndexes and
\* getTetrasIndexes address the node array of the body at indices 0..N-1 only, N being
\* the number of nodes: whatever the capacity of the mass buffer, whatever nodeId, and
\* also when the body has no node.
C22_NodeIndexInRange ==
    Completed(last, {"setMasses", "getMasses", "removeAnchor", "getLinksIndexes",
                     "getFacesIndexes", "getTetrasIndexes"})
    => \A j \in 1..Len(last.nodeIdx) : InRange(bodies[last.bodyId], last.nodeIdx[j])

\* C23: setMasses with a direct buffer of capacity n calls setMass(i, masses[i]) for
\* i = 0, ..., n-1 in this order, which leaves every existing node i < n with the mass
\* the engine keeps for masses[i], and changes no mass of a node i >= n and nothing
\* else in the body; and a getMasses into a buffer of capacity n that comes next, on a
\* body with at least n nodes, stores out[i] = what getMass(i) returns for every i < n,
\* which is masses[i] where the engine returns the mass it was given (masses >= 0).
C23_MassRoundTripStep ==
    LET h == last'.bodyId
        n == Len(last'.inp.data)
        N == Len(bodies[h].nodes)
    IN /\ Completed(last', {"setMasses"}) /\ last'.inp.direct
          => /\ last'.calls = [i \in 1..n |-> Call("setMass", <<i - 1, last'.inp.data[i]>>)]
             /\ Len(bodies'[h].nodes) = N
             /\ \A i \in 1..N :
                   bodies'[h].nodes[i] =
                      IF i <= n
                      THEN [bodies[h].nodes[i] EXCEPT
                               !.mass = btSoftBody_getMass(
                                           btSoftBody_setMass(bodies[h], i - 1,
                                                              last'.inp.data[i]), i - 1)]
                      ELSE bodies[h].nodes[i]
             /\ bodies' = [bodies EXCEPT ![h].nodes = bodies'[h].nodes]
       /\ ( /\ Completed(last', {"getMasses"}) /\ last'.inp.direct
            /\ Completed(last, {"setMasses"}) /\ last.inp.direct /\ last.bodyId = h
            /\ Len(last.inp.data) = n /\ N >= n )
          => /\ Len(last'.out) = n
             /\ last'.writes = [i \in 1..n |-> i - 1]
             /\ \A i \in 1..n :
                   /\ last'.out[i] = btSoftBody_getMass(bodies[h], i - 1)
                   /\ last.inp.data[i] >= 0 => last'.out[i] = last.inp.data[i]

C23_MassRoundTrip == [][C23_MassRoundTripStep]_vars

\* getMasses has stored the masses 2 and 3, which only setMasses can have set
C23_Witness ==
    /\ Completed(last, {"getMasses"})
    /\ last.out = <<2, 3>>
    /\ Len(bodies[1].nodes) = 2
    /\ bodies[1].nodes[1].mass = 2 /\ bodies[1].nodes[2].mass = 3

\* C25: with a buffer that is not direct (no address, capacity -1) appendNodes, the
\* nine appendLinks / appendFaces / appendTetras functions, setMasses and getMasses on
\* a non-null body make no engine call, load and store no buffer element, and leave
\* every body as it was.
C25_NotDirectStep ==
    ( /\ Completed(last', {"appendNodes", "appendLinks_ByteBuffer", "appendLinks_ShortBuffer",
                           "appendLinks_IntBuffer", "appendFaces_ByteBuffer",
                           "appendFaces_ShortBuffer", "appendFaces_IntBuffer",
                           "appendTetras_ByteBuffer", "appendTetras_ShortBuffer",
                           "appendTetras_IntBuffer", "setMasses", "getMasses"})
      /\ ~last'.inp.direct )
    => /\ last'.calls = <<>>
       /\ last'.reads = <<>>
       /\ last'.writes = <<>>
       /\ bodies' = bodies

C25_NotDirect == [][C25_NotDirectStep]_vars

\* setMasses has returned from a call with a buffer that is not direct, on a body
\* with two nodes
C25_Witness ==
    /\ Completed(last, {"setMasses"})
    /\ ~last.inp.direct
    /\ GetDirectBufferCapacity(last.inp) = -1
    /\ Len(bodies[1].nodes) = 2

\* C24: a byte, short or int variant of appendLinks, appendFaces, appendTetras makes
\* the engine calls the int variant makes on a buffer of the same capacity holding
\* the same node indices (each in 0..255, which a byte buffer can hold), and no
\* argument of these calls is negative.
C24_SameCalls ==
    Completed(last, IndexOps)
    => LET k == TupleSize(last.op)
           asInt == appendIndexLoop([b |-> bodies[last.bodyId], calls |-> <<>>,
                                     reads |-> <<>>],
                                    last.inp, GetDirectBufferCapacity(last.inp) - (k - 1),
                                    0, k, 32, EngineMethod(last.op), evalOrder)
       IN /\ last.calls = asInt.calls
          /\ \A j \in 1..Len(last.calls) : \A a \in 1..k : last.calls[j].args[a] >= 0
====
